---- MODULE Spec2Model ----
(***************************************************************************)
(* A model of the signature and call-graph extraction engine of           *)
(* scripts/index_utils.py: the three call-reference extractors, the       *)
(* call-graph builder, and the Python, JavaScript and shell scanners.     *)
(*                                                                         *)
(* Text is modelled at the level the regular expressions of the code see  *)
(* it: a function body handed to a call extractor is a sequence of        *)
(* tokens (words, "(", ".", white space, ...), a Python or shell file is  *)
(* a sequence of lines, each line a record of the features the patterns   *)
(* of the code test (indentation, keyword, name, ...).                    *)
(*                                                                         *)
(* A Python dict is a sequence of <<key, value>> pairs with distinct keys *)
(* (dicts keep insertion order); a dict used as a record with optional    *)
(* keys (func_info, class_info, result) is a function whose DOMAIN is the *)
(* set of keys present.                                                   *)
(***************************************************************************)
EXTENDS Integers, Sequences, FiniteSets, TLC

(***************************************************************************)
(* Bounds of the model.                                                   *)
(***************************************************************************)
\* longest body (in tokens) handed to a call extractor
MaxBody == 4
\* longest calls list of a record handed to build_call_graph
MaxCalls == 2
\* longest file (in lines) handed to a scanner
MaxLines == 3

(***************************************************************************)
(* Generic helpers: bounded sequences, Python's dict, sorted().           *)
(***************************************************************************)
SeqUpTo(S, n) == UNION {[1..k -> S] : k \in 0..n}

Range(s) == {s[k] : k \in 1..Len(s)}

\* every name the model uses, in ascending code-point order: Python's
\* ordering of str, which sorted() applies
NameOrder ==
    <<"A", "B", "Foo", "__init__", "__repr__", "a", "b", "bar", "baz", "catch",
      "constructor", "echo", "f", "g", "greet", "m", "print">>

Rank(n) == CHOOSE k \in 1..Len(NameOrder) : NameOrder[k] = n

StrLess(x, y) == Rank(x) < Rank(y)

\* sorted() with the order reversed
RECURSIVE SortedList_Descending(_)
SortedList_Descending(S) ==
    IF S = {} THEN <<>>
    ELSE LET greatest == CHOOSE x \in S : \A y \in S : x = y \/ StrLess(y, x)
         IN  <<greatest>> \o SortedList_Descending(S \ {greatest})

\* sorted(list(S)) for a set S of names
RECURSIVE SortedList(_)
SortedList(S) ==
    IF S = {} THEN <<>>
    ELSE LET least == CHOOSE x \in S : \A y \in S : x = y \/ StrLess(x, y)
         IN  <<least>> \o SortedList(S \ {least})

\* dict: a sequence of <<key, value>> pairs
DictKeys(d) == [k \in 1..Len(d) |-> d[k][1]]

DictHas(d, key) == \E k \in 1..Len(d) : d[k][1] = key

DictGet(d, key) == d[CHOOSE k \in 1..Len(d) : d[k][1] = key][2]

\* d[key] = value: an existing key keeps its place, a new one goes last
DictSet(d, key, value) ==
    IF DictHas(d, key)
    THEN [k \in 1..Len(d) |-> IF d[k][1] = key THEN <<key, value>> ELSE d[k]]
    ELSE Append(d, <<key, value>>)

\* del d[key]
DictDel(d, key) == SelectSeq(d, LAMBDA p : p[1] # key)

\* a record-like dict without one of its keys (del info[key])
Without(f, key) == [k \in DOMAIN f \ {key} |-> f[k]]

\* info.get(key, default)
Get(f, key, default) == IF key \in DOMAIN f THEN f[key] ELSE default

\* a value that is a plain str where a dict may stand (isinstance(v, dict)
\* is False): wrapped so that one set can hold both
PlainStr(s) == [str |-> s]

IsDict(v) == "str" \notin DOMAIN v

(***************************************************************************)
(* The call-reference extractors.  A body is a sequence of tokens: words  *)
(* (\w+), "(", ".", white space (" ", "\n") and, for shell, ";", "$(" and *)
(* the backquote, written "BACKTICK".  Two words never stand next to each *)
(* other (they would be one word).                                        *)
(***************************************************************************)
PyWords == {"a", "b", "print"}
JsWords == {"a", "b", "catch"}
ShWords == {"a", "b", "echo"}

\* the tokens that are not words (\w+)
NonWords == {"(", ")", ".", " ", "\n", ";", "&", "|", "$(", "BACKTICK", ":", "=", "@",
             "{", "}", ",", "$", "=>", "[", "]", "*", "-", "'mod'", "'lib'", "'", ""}

IsWord(t) == t \notin NonWords

PyTokens == PyWords \cup {"(", ".", " "}
JsTokens == JsWords \cup {"(", ".", " "}
ShTokens == ShWords \cup {"\n", " ", ";", "$(", "BACKTICK"}

WhiteSpace == {" ", "\n"}

WellFormed(body) ==
    \A k \in 1..(Len(body) - 1) : ~(IsWord(body[k]) /\ IsWord(body[k + 1]))

Bodies(tokens) == {b \in SeqUpTo(tokens, MaxBody) : WellFormed(b)}

\* the first position from k on that holds no white space (\s*)
RECURSIVE SkipSpace(_, _)
SkipSpace(body, k) ==
    IF k <= Len(body) /\ body[k] \in WhiteSpace THEN SkipSpace(body, k + 1) ELSE k

\* call_pattern \b(\w+)\s*\( matches with group 1 at position k
BareCallAt(body, k) ==
    /\ IsWord(body[k])
    /\ LET j == SkipSpace(body, k + 1) IN j <= Len(body) /\ body[j] = "("

\* method_pattern (?:self|cls|\w+)\.(\w+)\s*\( matches with group 1 at k
ReceiverCallAt(body, k) ==
    /\ k >= 3
    /\ IsWord(body[k - 2])
    /\ body[k - 1] = "."
    /\ BareCallAt(body, k)

exclude_keywords_python ==
    {"if", "elif", "while", "for", "with", "except", "def", "class",
     "return", "yield", "raise", "assert", "print", "len", "str",
     "int", "float", "bool", "list", "dict", "set", "tuple", "type",
     "isinstance", "issubclass", "super", "range", "enumerate", "zip",
     "map", "filter", "sorted", "reversed", "open", "input", "eval"}

exclude_keywords_javascript ==
    {"if", "while", "for", "switch", "catch", "function", "class",
     "return", "throw", "new", "typeof", "instanceof", "void",
     "console", "Array", "Object", "String", "Number", "Boolean",
     "Promise", "Math", "Date", "JSON", "parseInt", "parseFloat"}

\* the set calls both extractors collect before sorting it
CallSet(body, all_functions, exclude_keywords) ==
    {body[k] : k \in {j \in 1..Len(body) :
                        /\ BareCallAt(body, j)
                        /\ body[j] \in all_functions
                        /\ body[j] \notin exclude_keywords}}
    \cup
    {body[k] : k \in {j \in 1..Len(body) :
                        /\ ReceiverCallAt(body, j)
                        /\ body[j] \in all_functions}}

extract_function_calls_python(body, all_functions) ==
    SortedList(CallSet(body, all_functions, exclude_keywords_python))

extract_function_calls_javascript(body, all_functions) ==
    SortedList(CallSet(body, all_functions, exclude_keywords_javascript))

\* the white space run that ends just before position k starts at ...
RECURSIVE SpaceRunStart(_, _)
SpaceRunStart(body, k) ==
    IF k > 1 /\ body[k - 1] \in WhiteSpace THEN SpaceRunStart(body, k - 1) ELSE k

\* ^\s*name\b under re.MULTILINE: only white space between a line start
\* and the name
ShAtLineStart(body, k) ==
    LET r == SpaceRunStart(body, k)
    IN  r = 1 \/ \E j \in r..(k - 1) : body[j] = "\n"

\* [;&|]\s*name\b
ShAfterOperator(body, k) ==
    LET r == SpaceRunStart(body, k) IN r > 1 /\ body[r - 1] \in {";", "&", "|"}

\* \$\(name\b  and the same after a backquote
ShInSubstitution(body, k) == k > 1 /\ body[k - 1] \in {"$(", "BACKTICK"}

extract_function_calls_shell(body, all_functions) ==
    SortedList({f \in all_functions :
                  \E k \in 1..Len(body) :
                     /\ body[k] = f
                     /\ \/ ShAtLineStart(body, k)
                        \/ ShAfterOperator(body, k)
                        \/ ShInSubstitution(body, k)})

(***************************************************************************)
(* build_call_graph                                                        *)
(***************************************************************************)
\* a method keyed by its bare name
full_method_name_Bare(class_name, method_name) == method_name

full_method_name(class_name, method_name) == class_name \o "." \o method_name

\* calls_map after the loop over functions.items() has handled the
\* first n entries
RECURSIVE CallsOfFunctions(_, _)
CallsOfFunctions(functions, n) ==
    IF n = 0 THEN <<>>
    ELSE LET calls_map == CallsOfFunctions(functions, n - 1)
             func_name == functions[n][1]
             func_info == functions[n][2]
         IN  IF IsDict(func_info) /\ "calls" \in DOMAIN func_info
             THEN DictSet(calls_map, func_name, func_info["calls"])
             ELSE calls_map

\* calls_map after the first n methods of one class are handled
RECURSIVE CallsOfMethods(_, _, _, _)
CallsOfMethods(calls_map0, class_name, methods, n) ==
    IF n = 0 THEN calls_map0
    ELSE LET calls_map == CallsOfMethods(calls_map0, class_name, methods, n - 1)
             method_name == methods[n][1]
             method_info == methods[n][2]
         IN  IF IsDict(method_info) /\ "calls" \in DOMAIN method_info
             THEN DictSet(calls_map, full_method_name(class_name, method_name),
                          method_info["calls"])
             ELSE calls_map

\* calls_map after the first n classes are handled
RECURSIVE CallsOfClasses(_, _, _)
CallsOfClasses(calls_map0, classes, n) ==
    IF n = 0 THEN calls_map0
    ELSE LET calls_map == CallsOfClasses(calls_map0, classes, n - 1)
             class_name == classes[n][1]
             class_info == classes[n][2]
         IN  IF IsDict(class_info) /\ "methods" \in DOMAIN class_info
             THEN CallsOfMethods(calls_map, class_name, class_info["methods"],
                                 Len(class_info["methods"]))
             ELSE calls_map

\* the reverse index keeping only the first caller of each callee
RECURSIVE AddCaller_FirstOnly(_, _, _, _)
AddCaller_FirstOnly(called_by_map0, func_name, called_funcs, n) ==
    IF n = 0 THEN called_by_map0
    ELSE LET m1 == AddCaller_FirstOnly(called_by_map0, func_name, called_funcs, n - 1)
             called_func == called_funcs[n]
         IN  IF ~DictHas(m1, called_func)
             THEN DictSet(m1, called_func, <<func_name>>) ELSE m1

\* the reverse index appending the caller once per occurrence of a callee
RECURSIVE AddCaller_Unchecked(_, _, _, _)
AddCaller_Unchecked(called_by_map0, func_name, called_funcs, n) ==
    IF n = 0 THEN called_by_map0
    ELSE LET m1 == AddCaller_Unchecked(called_by_map0, func_name, called_funcs, n - 1)
             called_func == called_funcs[n]
             m2 == IF ~DictHas(m1, called_func)
                   THEN DictSet(m1, called_func, <<>>) ELSE m1
         IN  DictSet(m2, called_func, Append(DictGet(m2, called_func), func_name))

\* called_by_map after the first n callees of func_name are handled
RECURSIVE AddCaller(_, _, _, _)
AddCaller(called_by_map0, func_name, called_funcs, n) ==
    IF n = 0 THEN called_by_map0
    ELSE LET m1 == AddCaller(called_by_map0, func_name, called_funcs, n - 1)
             called_func == called_funcs[n]
             m2 == IF ~DictHas(m1, called_func)
                   THEN DictSet(m1, called_func, <<>>) ELSE m1
         IN  IF func_name \notin Range(DictGet(m2, called_func))
             THEN DictSet(m2, called_func,
                          Append(DictGet(m2, called_func), func_name))
             ELSE m2

\* called_by_map after the first n entries of calls_map are handled
RECURSIVE ReverseIndex(_, _)
ReverseIndex(calls_map, n) ==
    IF n = 0 THEN <<>>
    ELSE AddCaller(ReverseIndex(calls_map, n - 1), calls_map[n][1],
                   calls_map[n][2], Len(calls_map[n][2]))

build_call_graph(functions, classes) ==
    LET calls_map ==
            CallsOfClasses(CallsOfFunctions(functions, Len(functions)),
                           classes, Len(classes))
    IN  <<calls_map, ReverseIndex(calls_map, Len(calls_map))>>

(***************************************************************************)
(* State.  Each component has its own variables; a specification runs one *)
(* component and leaves the others idle.                                  *)
(***************************************************************************)
VARIABLES
    \* a call extractor: the language, its two arguments, its return value
    lang, body, all_functions, calls,
    \* build_call_graph: whether it ran, its two arguments, its two results
    graph_built, functions, classes, calls_map, called_by_map

cxVars == <<lang, body, all_functions, calls>>
cgVars == <<graph_built, functions, classes, calls_map, called_by_map>>

CxIdle == lang = "none" /\ body = <<>> /\ all_functions = {} /\ calls = <<>>

CgIdle ==
    /\ graph_built = FALSE
    /\ functions = <<>> /\ classes = <<>>
    /\ calls_map = <<>> /\ called_by_map = <<>>

(***************************************************************************)
(* One call of a call extractor on a body and a known-symbol set.         *)
(***************************************************************************)
ExtractPython ==
    /\ lang = "none"
    /\ \E b \in Bodies(PyTokens), known \in SUBSET PyWords :
          /\ lang' = "python"
          /\ body' = b
          /\ all_functions' = known
          /\ calls' = extract_function_calls_python(b, known)

ExtractJavascript ==
    /\ lang = "none"
    /\ \E b \in Bodies(JsTokens), known \in SUBSET JsWords :
          /\ lang' = "javascript"
          /\ body' = b
          /\ all_functions' = known
          /\ calls' = extract_function_calls_javascript(b, known)

ExtractShell ==
    /\ lang = "none"
    /\ \E b \in Bodies(ShTokens), known \in SUBSET ShWords :
          /\ lang' = "shell"
          /\ body' = b
          /\ all_functions' = known
          /\ calls' = extract_function_calls_shell(b, known)

(***************************************************************************)
(* One call of build_call_graph.  Its arguments are dicts as the scanners *)
(* build them (name -> info dict, or name -> plain signature string as    *)
(* the shell scanner stores it), with any calls list.                     *)
(***************************************************************************)
GraphFunctionNames == {"a", "b"}
GraphClassNames == {"A"}
GraphMethodNames == {"m"}
GraphCallees == {"a", "b"}

GraphInfos ==
    {PlainStr("()"), [line |-> 1, signature |-> "()"]}
    \cup {[line |-> 1, calls |-> c, signature |-> "()"] :
            c \in SeqUpTo(GraphCallees, MaxCalls)}

\* the dicts with keys among names and values among values
DictsOver(names, values) ==
    {d \in SeqUpTo(names \X values, Cardinality(names)) :
        \A j, k \in 1..Len(d) : j # k => d[j][1] # d[k][1]}

GraphClassInfos ==
    {[line |-> 1]}
    \cup {[line |-> 1, methods |-> ms] : ms \in DictsOver(GraphMethodNames, GraphInfos)}

BuildCallGraph ==
    /\ ~graph_built
    /\ \E fs \in DictsOver(GraphFunctionNames, GraphInfos),
          cs \in DictsOver(GraphClassNames, GraphClassInfos) :
          /\ graph_built' = TRUE
          /\ functions' = fs
          /\ classes' = cs
          /\ calls_map' = build_call_graph(fs, cs)[1]
          /\ called_by_map' = build_call_graph(fs, cs)[2]

\* the inputs that show the order of the callers: one function, two
\* classes with up to two methods each, all calling the function a any
\* number of times
OrderCallees == {"a"}

OrderInfos ==
    {PlainStr("()")}
    \cup {[line |-> 1, calls |-> c, signature |-> "()"] :
            c \in SeqUpTo(OrderCallees, MaxCalls)}

OrderClassInfos ==
    {[line |-> 1, methods |-> ms] : ms \in DictsOver({"m", "n"}, OrderInfos)}

BuildCallGraphOrder ==
    /\ ~graph_built
    /\ \E fs \in DictsOver({"a"}, OrderInfos),
          cs \in DictsOver({"A", "B"}, OrderClassInfos) :
          /\ graph_built' = TRUE
          /\ functions' = fs
          /\ classes' = cs
          /\ calls_map' = build_call_graph(fs, cs)[1]
          /\ called_by_map' = build_call_graph(fs, cs)[2]

(***************************************************************************)
(* extract_python_signatures.  A Python file is a sequence of lines; a    *)
(* line is a record of what the patterns of the scanner look at:          *)
(*   k     the kind of line (which of the patterns match it)              *)
(*   ind   its indentation, len(line) - len(line.lstrip())                *)
(*   name  the name it declares (\w+ group of the pattern that matches)   *)
(*   arg   bases of a class, callee of a statement or of the statement    *)
(*         that follows a def on its line, value of a constant, modules   *)
(*         of an import                                                    *)
(***************************************************************************)
PyLine(k, ind, name, arg) == [k |-> k, ind |-> ind, name |-> name, arg |-> arg]

\* current_class = None
None == "None"

\* line.strip().startswith('#') or .startswith('"""') or .startswith("'''")
IsCommentOrDocstring(line) == line.k \in {"comment", "docstring"}

\* not line.strip()
IsBlank(line) == line.k = "blank"

\* decorator_pattern  ^([ \t]*)@(\w+)(?:\(.*\))?$
decorator_match(line) == line.k = "decorator"

\* type_alias_pattern  ^(\w+)\s*=\s*(?:Union|Optional|...)\[.+\]$
type_alias_match(line) == line.k = "alias" /\ line.ind = 0

\* module_const_pattern  ^([A-Z_][A-Z0-9_]*)\s*=\s*(.+)$
const_match(line) == line.k = "const" /\ line.ind = 0

\* module_var_pattern  ^(\w+)\s*:\s*([^=]+)\s*=
var_match(line) == line.k = "typedvar" /\ line.ind = 0

\* class_pattern  ^([ \t]*)class\s+(\w+)(?:\s*\((.*?)\))?:
class_match(line) == line.k = "class"

\* enum_val_pattern  ^([ \t]+)([A-Z_][A-Z0-9_]*)\s*(?:=\s*(.+))?$
enum_match(line) == line.k = "const" /\ line.ind > 0

\* class_const_pattern  ^([ \t]+)([A-Z_][A-Z0-9_]*)\s*=\s*(.+)$
class_const_match(line) == line.k = "const" /\ line.ind > 0

\* func_start_pattern  ^([ \t]*)(async\s+)?def\s+(\w+)\s*\(
func_start_match(line) == line.k \in {"def", "defopen"}

\* property_pattern  ^([ \t]*)(\w+)\s*:\s*([^=\n]+)
prop_match(line) == line.k \in {"typedvar", "annot"}

\* docstring_pattern  ^([ \t]*)(?:'''|""")(.+?)(?:'''|""")
doc_match(line) == line.k = "docstring"

\* import_pattern on line.strip()  ^(?:from\s+([^\s]+)\s+)?import\s+(.+)$
import_match(line) == line.k = "import"

\* re.search(r'\).*:', line): a ")" with a ":" somewhere after it.  A def
\* with its header on one line, the last line "...):" of a split header,
\* a class with bases and an "if f(x) and y:" have one.
HasTerminator(line) ==
    \/ line.k \in {"def", "sigend", "ifstmt"}
    \/ line.k = "class" /\ line.arg # <<>>

\* func_pattern on the text joined from the def line to the line holding
\* the terminator: it needs "):" (or ") -> T:"), which "if f(x) and y:"
\* does not give
complete_match(terminator) == terminator.k # "ifstmt"

skip_dunder == {"__repr__", "__str__", "__hash__", "__eq__", "__ne__",
                "__lt__", "__le__", "__gt__", "__ge__", "__bool__"}

\* the tokens of a line, as the call patterns see them in a body
LineTokens(line) ==
    CASE line.k = "class" ->
            <<"class", " ", line.name>>
            \o (IF line.arg = <<>> THEN <<>> ELSE <<"(">> \o line.arg \o <<")">>)
            \o <<":">>
      [] line.k = "def" ->
            <<"def", " ", line.name, "(", "self", ")", ":">>
            \o (IF line.arg = "" THEN <<>>
                ELSE <<" ", "return", " ", line.arg, "(", ")">>)
      [] line.k = "defopen" -> <<"def", " ", line.name, "(">>
      [] line.k = "sigend" -> <<"self", ")", ":">>
      [] line.k = "stmt" ->
            IF line.arg = "" THEN <<"pass">>
            ELSE <<"return", " ", line.arg, "(", ")">>
      [] line.k = "ifstmt" -> <<"if", " ", line.arg, "(", ")", ":", " ", "pass">>
      [] line.k = "decorator" -> <<"@", line.name>>
      [] line.k \in {"const", "alias"} -> <<line.name, "=", line.arg>>
      [] line.k \in {"typedvar", "annot"} -> <<line.name, ":", "int">>
      [] OTHER -> <<>>

\* the text between the parentheses of a header that runs from line i to
\* line j (0-based), piece by piece
RECURSIVE ParamText(_, _, _)
ParamText(ls, i, j) ==
    IF i > j THEN <<>>
    ELSE (CASE ls[i + 1].k = "def" -> <<"self">>
            [] ls[i + 1].k = "sigend" -> <<"self">>
            [] ls[i + 1].k = "defopen" -> <<>>
            [] OTHER -> <<ls[i + 1].k, ls[i + 1].name>>)
         \o ParamText(ls, i + 1, j)

\* base names in which the lower-cased name contains 'enum'
EnumLike == {"Enum", "IntEnum"}

\* base names in which the lower-cased name contains 'exception' or 'error'
ExceptionLike == {"Exception", "ValueError", "HttpException"}

\* base names whose lower-cased name is 'abc' or 'protocol'
AbstractLike == {"ABC", "Protocol"}

\* the special-type entries of class_info for a non-empty base_list
SpecialType(base_list) ==
    IF \E b \in Range(base_list) : b \in EnumLike THEN [type |-> "enum"]
    ELSE IF \E b \in Range(base_list) : b \in ExceptionLike THEN [type |-> "exception"]
    ELSE IF \E b \in Range(base_list) : b \in AbstractLike THEN [abstract |-> TRUE]
    ELSE <<>>

\* const_type of a constant's value text
ConstType(value) ==
    IF value \in {"{", "["} THEN "collection"
    ELSE IF value \in {"'s'"} THEN "str"
    ELSE IF value \in {"1", "-1.5"} THEN "number"
    ELSE "value"

\* the line number stored for the line at 0-based index i
\* the line number left 0-based
LineNumber_ZeroBased(i) == i

LineNumber(i) == i + 1

VARIABLES
    \* where the scan stands: "idle", "scan" (in the while loop), "done"
    py_pc,
    \* the locals of extract_python_signatures
    lines, i, result, current_class, current_class_indent, class_stack,
    all_function_names, pending_decorators,
    \* history: the names of the top-level classes given type 'enum'
    enum_classified

pyVars == <<py_pc, lines, i, result, current_class, current_class_indent,
            class_stack, all_function_names, pending_decorators, enum_classified>>

PyIdle ==
    /\ py_pc = "idle"
    /\ lines = <<>> /\ i = 0 /\ result = <<>>
    /\ current_class = None /\ current_class_indent = -1
    /\ class_stack = <<>> /\ all_function_names = {}
    /\ pending_decorators = <<>> /\ enum_classified = {}

\* the modules the first pass adds to result['imports'] for the first n lines
RECURSIVE ImportsOf(_, _)
ImportsOf(ls, n) ==
    IF n = 0 THEN <<>>
    ELSE ImportsOf(ls, n - 1)
         \o (IF import_match(ls[n])
             THEN (IF ls[n].name # "" THEN <<ls[n].name>> ELSE ls[n].arg)
             ELSE <<>>)

\* the call up to the while loop: the result skeleton, the two first
\* passes, the scan state
PyStart(content) ==
    /\ py_pc' = "scan"
    /\ lines' = content
    /\ result' = [imports |-> ImportsOf(content, Len(content)),
                  functions |-> <<>>, classes |-> <<>>, constants |-> <<>>,
                  variables |-> <<>>, type_aliases |-> <<>>, enums |-> <<>>,
                  call_graph |-> <<>>]
    /\ current_class' = None
    /\ current_class_indent' = -1
    /\ class_stack' = <<>>
    /\ all_function_names' =
          {content[k].name : k \in {n \in 1..Len(content) : func_start_match(content[n])}}
    /\ pending_decorators' = <<>>
    /\ i' = 0
    /\ enum_classified' = {}

\* info[key] = value on a record-like dict
SetKey(f, key, value) ==
    [k \in DOMAIN f \cup {key} |-> IF k = key THEN value ELSE f[k]]

\* result['classes'][class_name][key] = value
SetClassKey(res, class_name, key, value) ==
    [res EXCEPT !.classes =
        DictSet(@, class_name, SetKey(DictGet(@, class_name), key, value))]

\* name.startswith('_')
StartsWithUnderscore(name) ==
    name \in {"_x", "__init__", "__repr__", "__str__", "__hash__", "__eq__"}

\* the scan variables as one record, for the steps below
PyState ==
    [i |-> i, result |-> result, current_class |-> current_class,
     current_class_indent |-> current_class_indent, class_stack |-> class_stack,
     pending_decorators |-> pending_decorators, enum_classified |-> enum_classified]

\* while class_stack and indent_level <= class_stack[-1][1]: class_stack.pop()
RECURSIVE PopDedented(_, _)
PopDedented(stack, indent_level) ==
    IF stack # <<>> /\ indent_level <= stack[Len(stack)][2]
    THEN PopDedented(SubSeq(stack, 1, Len(stack) - 1), indent_level)
    ELSE stack

\* the doc entry a declaration at 0-based index k gets from the next line
DocOf(ls, k) ==
    IF k + 1 < Len(ls) /\ doc_match(ls[k + 2]) THEN [doc |-> ls[k + 2].name] ELSE <<>>

\* a class definition line that records the class whatever its indentation
ClassDef_AnyIndent(s, line) ==
    LET indent_level == line.ind
        stack == PopDedented(s.class_stack, indent_level)
        base_list == line.arg
        class_info ==
            [methods |-> <<>>, class_constants |-> <<>>]
            @@ (IF base_list # <<>>
                THEN [inherits |-> base_list] @@ SpecialType(base_list) ELSE <<>>)
            @@ DocOf(lines, s.i)
            @@ [line |-> s.i + 1]
    IN  [s EXCEPT
            !.result = [@ EXCEPT !.classes = DictSet(@, line.name, class_info)],
            !.pending_decorators = <<>>,
            !.current_class = line.name,
            !.current_class_indent = indent_level,
            !.class_stack = Append(stack, <<line.name, indent_level>>),
            !.i = @ + 1]

\* a class definition line: lines 284-334
ClassDef(s, line) ==
    LET indent_level == line.ind
        stack == PopDedented(s.class_stack, indent_level)
        base_list == line.arg
        class_info ==
            [methods |-> <<>>, class_constants |-> <<>>]
            @@ (IF s.pending_decorators # <<>>
                THEN [decorators |-> s.pending_decorators] ELSE <<>>)
            @@ (IF base_list # <<>>
                THEN [inherits |-> base_list] @@ SpecialType(base_list) ELSE <<>>)
            @@ DocOf(lines, s.i)
            @@ [line |-> LineNumber(s.i)]
    IN  IF indent_level = 0
        THEN [s EXCEPT
                !.result = [@ EXCEPT !.classes = DictSet(@, line.name, class_info)],
                !.pending_decorators = <<>>,
                !.current_class = line.name,
                !.current_class_indent = indent_level,
                !.class_stack = Append(stack, <<line.name, indent_level>>),
                !.enum_classified =
                    IF Get(class_info, "type", "") = "enum"
                    THEN @ \cup {line.name} ELSE @,
                !.i = @ + 1]
        ELSE [s EXCEPT
                !.class_stack = Append(stack, <<line.name, indent_level>>),
                !.i = @ + 1]

\* lines 337-341: leaving the current class on a dedented line (comment
\* lines never get here)
LeaveClass(s, line) ==
    IF s.current_class # None /\ ~IsBlank(line) /\ line.ind <= s.current_class_indent
    THEN [s EXCEPT !.current_class = None, !.current_class_indent = -1]
    ELSE s

\* lines 344-376 take the line as an enum value or a class constant
IsEnumValue(s, line) ==
    /\ s.current_class # None
    /\ Get(DictGet(s.result.classes, s.current_class), "type", "") = "enum"
    /\ enum_match(line)
    /\ line.ind > s.current_class_indent

IsClassConstant(s, line) ==
    /\ s.current_class # None
    /\ class_const_match(line)
    /\ line.ind > s.current_class_indent

EnumValue(s, line) ==
    LET info == DictGet(s.result.classes, s.current_class)
    IN  [s EXCEPT
            !.result = SetClassKey(@, s.current_class, "values",
                                   Append(Get(info, "values", <<>>), line.name)),
            !.i = @ + 1]

ClassConstant(s, line) ==
    LET info == DictGet(s.result.classes, s.current_class)
    IN  [s EXCEPT
            !.result = SetClassKey(@, s.current_class, "class_constants",
                                   DictSet(info["class_constants"], line.name,
                                           ConstType(line.arg))),
            !.i = @ + 1]

\* the search for the end of a signature that takes the last line for it
\* when none holds it
RECURSIVE SignatureEnd_LastLine(_, _)
SignatureEnd_LastLine(ls, j) ==
    IF j < Len(ls) - 1 /\ ~HasTerminator(ls[j + 1])
    THEN SignatureEnd_LastLine(ls, j + 1) ELSE j

\* the 0-based index of the first line from j on that holds the end of a
\* signature, len(lines) if none does (lines 389-395)
RECURSIVE SignatureEnd(_, _)
SignatureEnd(ls, j) ==
    IF j < Len(ls) /\ ~HasTerminator(ls[j + 1]) THEN SignatureEnd(ls, j + 1) ELSE j

\* func_body_lines: lines 457-474
RECURSIVE BodyLines(_, _, _)
BodyLines(ls, body_idx, func_indent) ==
    IF body_idx >= Len(ls) THEN <<>>
    ELSE LET body_line == ls[body_idx + 1]
         IN  IF IsBlank(body_line)
             THEN <<body_line>> \o BodyLines(ls, body_idx + 1, func_indent)
             ELSE IF body_line.ind <= func_indent THEN <<>>
             ELSE <<body_line>> \o BodyLines(ls, body_idx + 1, func_indent)

\* '\n'.join(func_body_lines), in tokens
RECURSIVE JoinLines(_)
JoinLines(ls) ==
    IF ls = <<>> THEN <<>>
    ELSE IF Len(ls) = 1 THEN LineTokens(ls[1])
    ELSE LineTokens(ls[1]) \o <<"\n">> \o JoinLines(Tail(ls))

\* func_info of the definition whose header ends at 0-based line i1
FuncInfo(s, line, i1) ==
    LET func_body_lines == BodyLines(lines, i1 + 1, line.ind)
        found == IF func_body_lines # <<>>
                 THEN extract_function_calls_python(JoinLines(func_body_lines),
                                                    all_function_names)
                 ELSE <<>>
    IN  [line |-> LineNumber(i1)]
        @@ (IF s.pending_decorators # <<>>
            THEN [decorators |-> s.pending_decorators] ELSE <<>>)
        @@ DocOf(lines, i1)
        @@ (IF found # <<>> THEN [calls |-> found] ELSE <<>>)
        @@ [signature |-> <<"(">> \o ParamText(lines, s.i, i1) \o <<")">>]

\* a header that cannot be parsed sends the scan back one line
FuncDef_Rewind(s, line) ==
    LET j == SignatureEnd(lines, s.i)
    IN  IF j >= Len(lines) \/ ~complete_match(lines[j + 1])
        THEN <<TRUE, [s EXCEPT !.i = IF @ > 0 THEN @ - 1 ELSE @ + 1]>>
        ELSE <<FALSE, [s EXCEPT !.i = j,
                                !.result.functions =
                                    DictSet(@, line.name, FuncInfo(s, line, j)),
                                !.pending_decorators = <<>>]>>

\* lines 380-492.  The flag says whether the line was left by `continue`
\* (and i advanced) or the code falls through to the property check.
FuncDef(s, line) ==
    LET j == SignatureEnd(lines, s.i)
    IN  IF j >= Len(lines) \/ ~complete_match(lines[j + 1])
        THEN <<TRUE, [s EXCEPT !.i = @ + 1]>>
        ELSE IF line.name \in skip_dunder /\ line.name # "__init__"
        THEN <<TRUE, [s EXCEPT !.i = j + 1]>>
        ELSE
        LET func_info == FuncInfo(s, line, j)
            abstract ==
                IF /\ "abstractmethod" \in Range(s.pending_decorators)
                   /\ s.current_class # None
                THEN SetClassKey(s.result, s.current_class, "abstract", TRUE)
                ELSE s.result
            placed ==
                IF s.current_class # None /\ line.ind > s.current_class_indent
                THEN SetClassKey(abstract, s.current_class, "methods",
                        DictSet(DictGet(abstract.classes, s.current_class)["methods"],
                                line.name, func_info))
                ELSE IF line.ind = 0
                THEN [abstract EXCEPT !.functions = DictSet(@, line.name, func_info)]
                ELSE abstract
        IN  <<FALSE, [s EXCEPT !.i = j, !.result = placed, !.pending_decorators = <<>>]>>

\* lines 495-502: the property check, then i += 1
PropertyCheck(s, line) ==
    LET added ==
            IF /\ s.current_class # None
               /\ prop_match(line)
               /\ line.ind > s.current_class_indent
               /\ ~StartsWithUnderscore(line.name)
            THEN SetClassKey(s.result, s.current_class, "properties",
                    Append(Get(DictGet(s.result.classes, s.current_class),
                               "properties", <<>>), line.name))
            ELSE s.result
    IN  [s EXCEPT !.result = added, !.i = @ + 1]

\* one iteration of the while loop on line = lines[i]: lines 231-504
PyLineStep(s, line) ==
    IF IsCommentOrDocstring(line) THEN [s EXCEPT !.i = @ + 1]
    ELSE IF decorator_match(line)
    THEN [s EXCEPT !.pending_decorators = Append(@, line.name), !.i = @ + 1]
    ELSE IF s.current_class = None /\ type_alias_match(line)
    THEN [s EXCEPT !.result.type_aliases = DictSet(@, line.name, line.arg), !.i = @ + 1]
    ELSE IF s.current_class = None /\ const_match(line)
    THEN [s EXCEPT !.result.constants = DictSet(@, line.name, ConstType(line.arg)),
                   !.i = @ + 1]
    ELSE IF s.current_class = None /\ var_match(line)
    THEN [s EXCEPT
            !.result.variables =
                IF line.name \notin Range(@) /\ ~StartsWithUnderscore(line.name)
                THEN Append(@, line.name) ELSE @,
            !.i = @ + 1]
    ELSE IF class_match(line) THEN ClassDef(s, line)
    ELSE
    LET s1 == LeaveClass(s, line)
    IN  IF IsEnumValue(s1, line) THEN EnumValue(s1, line)
        ELSE IF IsClassConstant(s1, line) THEN ClassConstant(s1, line)
        ELSE IF func_start_match(line)
        THEN LET r == FuncDef(s1, line)
             IN  IF r[1] THEN r[2] ELSE PropertyCheck(r[2], line)
        ELSE PropertyCheck(s1, line)

PyStep ==
    /\ py_pc = "scan"
    /\ i < Len(lines)
    /\ LET s == PyLineStep(PyState, lines[i + 1])
       IN  /\ i' = s.i
           /\ result' = s.result
           /\ current_class' = s.current_class
           /\ current_class_indent' = s.current_class_indent
           /\ class_stack' = s.class_stack
           /\ pending_decorators' = s.pending_decorators
           /\ enum_classified' = s.enum_classified
    /\ UNCHANGED <<py_pc, lines, all_function_names>>

\* lines 507-515: the empty optional collections of one class_info go
RECURSIVE PruneKeys(_, _)
PruneKeys(info, keys) ==
    IF keys = <<>> THEN info
    ELSE LET key == Head(keys)
         IN  PruneKeys(IF key \in DOMAIN info /\ info[key] = <<>>
                       THEN Without(info, key) ELSE info,
                       Tail(keys))

PruneClass(class_info) ==
    PruneKeys(class_info, <<"properties", "class_constants", "decorators", "values">>)

\* enums_to_move carrying the whole class record
EnumsToMove_WholeRecord(cls) ==
    SelectSeq(cls, LAMBDA p : Get(p[2], "type", "") = "enum")

\* lines 531-537: the entries of enums_to_move
EnumsToMove(cls) ==
    LET enum_classes == SelectSeq(cls, LAMBDA p : Get(p[2], "type", "") = "enum")
    IN  [k \in 1..Len(enum_classes) |->
            <<enum_classes[k][1],
              [values |-> Get(enum_classes[k][2], "values", <<>>),
               doc |-> Get(enum_classes[k][2], "doc", "")]>>]

\* lines 506-542: what the function returns for the scanned result
PostProcess(res) ==
    LET pruned == [res EXCEPT !.classes =
                      [k \in 1..Len(@) |-> <<@[k][1], PruneClass(@[k][2])>>]]
        kept == PruneKeys(pruned, <<"constants", "variables", "type_aliases",
                                    "enums", "imports">>)
        enums_to_move == EnumsToMove(kept.classes)
        moved == [kept EXCEPT !.classes =
                     SelectSeq(@, LAMBDA p : Get(p[2], "type", "") # "enum")]
    IN  IF enums_to_move # <<>> THEN SetKey(moved, "enums", enums_to_move) ELSE moved

\* the while loop has ended: post-process and return
PyFinish ==
    /\ py_pc = "scan"
    /\ i >= Len(lines)
    /\ py_pc' = "done"
    /\ result' = PostProcess(result)
    /\ UNCHANGED <<lines, i, current_class, current_class_indent, class_stack,
                   all_function_names, pending_decorators, enum_classified>>

\* the lines the Python files of the model are made of
PyAlphabet ==
    {PyLine("blank", 0, "", ""),
     PyLine("decorator", 0, "d", ""),
     PyLine("docstring", 4, "Doc", ""),
     PyLine("class", 0, "Foo", <<"Exception">>),
     PyLine("class", 0, "Foo", <<"Enum">>),
     PyLine("const", 4, "RED", "1"),
     PyLine("def", 0, "baz", ""),
     PyLine("def", 4, "bar", ""),
     PyLine("def", 4, "bar", "baz"),
     PyLine("stmt", 8, "", "baz"),
     PyLine("defopen", 0, "f", ""),
     PyLine("sigend", 4, "", ""),
     PyLine("import", 0, "", <<"os">>),
     PyLine("import", 0, "os", <<>>),
     PyLine("class", 4, "Inner", <<>>),
     PyLine("def", 4, "__repr__", "")}

PyFiles == SeqUpTo(PyAlphabet, MaxLines)

\* extract_python_signatures is called on a file
PyScan == py_pc = "idle" /\ \E content \in PyFiles : PyStart(content)

\* the lines of the files that declare a class with annotated attributes,
\* a method with an annotated local, and module-level assignments:
\*   class Foo:  /  x: int  /  def bar(self):  /  y: int = 5  /
\*   MAX = 1  /  name: int = 5  /  T = List[int]
PyScopeAlphabet ==
    {PyLine("class", 0, "Foo", <<>>),
     PyLine("annot", 4, "x", ""),
     PyLine("def", 4, "bar", ""),
     PyLine("typedvar", 8, "y", "5"),
     PyLine("const", 0, "MAX", "1"),
     PyLine("typedvar", 0, "name", "5"),
     PyLine("alias", 0, "T", "List[int]")}

PyScopeFiles == SeqUpTo(PyScopeAlphabet, MaxLines)

\* extract_python_signatures is called on such a file
PyScopeScan == py_pc = "idle" /\ \E content \in PyScopeFiles : PyStart(content)

(***************************************************************************)
(* extract_shell_signatures.  A shell script is a sequence of lines; a    *)
(* line is a record:                                                       *)
(*   k       "blank", "shebang", "comment", "func1" (name() ...),         *)
(*           "func2" (function name ...), "open" ({), "close" (}),        *)
(*           "cmd" (a command), "export", "var", "source"                 *)
(*   ind     its indentation                                               *)
(*   name    the function, variable or file it names; for a command, its  *)
(*           first word; for a comment, its text                           *)
(*   brace   the braces on the line: "", "{", "}" or "{}"                *)
(*   params  the numbers n of the $n on the line, in order                *)
(*   arg     the value of an export; the first word of the command that   *)
(*           follows a declaration on its line (name() { cmd; })          *)
(***************************************************************************)
ShLine(k, ind, name, brace, params, arg) ==
    [k |-> k, ind |-> ind, name |-> name, brace |-> brace, params |-> params, arg |-> arg]

\* line_content.count('{') and line_content.count('}')
OpenCount(line) == IF line.brace \in {"{", "{}"} THEN 1 ELSE 0

CloseCount(line) == IF line.brace \in {"}", "{}"} THEN 1 ELSE 0

\* func_pattern1  ^(\w+)\s*\(\)\s*\{?   and
\* func_pattern2  ^function\s+(\w+)\s*\{?   on the stripped line
func_pattern1_match(line) == line.k = "func1"

func_pattern2_match(line) == line.k = "func2"

\* the same two patterns on the line as it stands, as the first pass
\* applies them: white space before the name defeats the ^
FirstPassMatch(line) == line.k \in {"func1", "func2"} /\ line.ind = 0

\* export_pattern  ^export\s+([A-Z_][A-Z0-9_]*)(=(.*))?
export_match(line) == line.k = "export"

\* var_pattern  ^([A-Z_][A-Z0-9_]*)=(.+)$
sh_var_match(line) == line.k = "var"

\* one of source_patterns
source_match(line) == line.k = "source"

\* lines[i-1].strip().startswith('#')
StartsWithHash(line) == line.k \in {"comment", "shebang"}

\* lines[i-1].strip()[1:].strip()
HashText(line) == IF line.k = "shebang" THEN "!/bin/bash" ELSE line.name

\* the tokens of a line, as extract_function_calls_shell sees them
ShLineTokens(line) ==
    LET indent == IF line.ind > 0 THEN <<" ">> ELSE <<>>
        refs == [k \in 1..Len(line.params) |-> "$"]
        braces == IF line.brace = "" THEN <<>>
                  ELSE IF line.brace = "{}" THEN <<"{", "}">>
                  ELSE <<line.brace>>
    IN  CASE line.k = "func1" ->
                indent \o <<line.name, "(", ")">>
                \o (IF line.brace = "" THEN <<>> ELSE <<" ", "{">>)
                \o (IF line.arg = "" THEN <<>> ELSE <<" ", line.arg>> \o refs \o <<";">>)
                \o (IF line.brace = "{}" THEN <<" ", "}">> ELSE <<>>)
          [] line.k = "func2" ->
                indent \o <<"function", " ", line.name>>
                \o (IF line.brace = "" THEN <<>> ELSE <<" ", "{">>)
                \o (IF line.arg = "" THEN <<>> ELSE <<" ", line.arg>> \o refs \o <<";">>)
                \o (IF line.brace = "{}" THEN <<" ", "}">> ELSE <<>>)
          [] line.k = "cmd" -> indent \o <<line.name>> \o refs \o braces
          [] line.k \in {"open", "close"} -> indent \o braces
          [] line.k = "export" -> <<"export", " ", line.name, "=", line.arg>>
          [] line.k = "var" -> <<line.name, "=", "1">>
          [] line.k = "source" -> <<"source", " ", line.name>>
          [] OTHER -> <<>>

\* '\n'.join(func_body_lines), in tokens
RECURSIVE ShJoinLines(_)
ShJoinLines(ls) ==
    IF ls = <<>> THEN <<>>
    ELSE IF Len(ls) = 1 THEN ShLineTokens(ls[1])
    ELSE ShLineTokens(ls[1]) \o <<"\n">> \o ShJoinLines(Tail(ls))

\* the parameter scan looks at lines i+1 .. i+ParamWindow-1
ParamWindow == 20

\* params.append(param_num) for each new positive $n of one line
RECURSIVE AddParams(_, _)
AddParams(params, found) ==
    IF found = <<>> THEN params
    ELSE AddParams(IF Head(found) > 0 /\ Head(found) \notin Range(params)
                   THEN Append(params, Head(found)) ELSE params,
                   Tail(found))

\* the loop of lines 998-1016 from 0-based line j on; stop is the end of
\* its range
RECURSIVE ParamScan(_, _, _, _, _, _)
ParamScan(ls, j, stop, brace_count, in_func_body, params) ==
    IF j >= stop THEN params
    ELSE LET line == ls[j + 1]
             opened == brace_count + OpenCount(line)
             in_body == in_func_body \/ OpenCount(line) > 0
             closed == opened - CloseCount(line)
         IN  IF CloseCount(line) > 0 /\ closed <= 0 THEN params
             ELSE ParamScan(ls, j + 1, stop, closed, in_body,
                            IF in_body THEN AddParams(params, line.params) ELSE params)

Max(S) == CHOOSE x \in S : \A y \in S : y <= x

\* '$1' if j == 1 else '${j}'
ParamName(j) == IF j = 1 THEN "$1" ELSE "${" \o ToString(j) \o "}"

\* ' '.join(...) of the names of parameters from..max_param
RECURSIVE ParamList(_, _)
ParamList(from, max_param) ==
    IF from > max_param THEN ""
    ELSE IF from = max_param THEN ParamName(from)
    ELSE ParamName(from) \o " " \o ParamList(from + 1, max_param)

\* lines 1019-1024
ShSignature(params) ==
    IF params # <<>> THEN "(" \o ParamList(1, Max(Range(params))) \o ")" ELSE "()"

\* func_body_lines: the loop of lines 1030-1040 from 0-based line j on
RECURSIVE ShBodyLines(_, _, _, _)
ShBodyLines(ls, j, brace_count, in_func_body) ==
    IF j >= Len(ls) THEN <<>>
    ELSE LET line == ls[j + 1]
             opened == brace_count + OpenCount(line)
             in_body == in_func_body \/ OpenCount(line) > 0
             closed == opened - CloseCount(line)
             this == IF in_body THEN <<line>> ELSE <<>>
         IN  IF CloseCount(line) > 0 /\ closed <= 0 THEN this
             ELSE this \o ShBodyLines(ls, j + 1, closed, in_body)

\* the value stored in result['functions'] for the declaration on
\* 0-based line k: lines 986-1056 (and the same again at 1062-1132)
ShFunctionEntry(ls, k, known) ==
    LET doc == IF k > 0 /\ StartsWithHash(ls[k]) THEN HashText(ls[k]) ELSE ""
        stop == IF k + ParamWindow < Len(ls) THEN k + ParamWindow ELSE Len(ls)
        params == ParamScan(ls, k + 1, stop, 0, FALSE, <<>>)
        signature == ShSignature(params)
        func_body_lines == ShBodyLines(ls, k + 1, 0, FALSE)
        found == IF func_body_lines # <<>>
                 THEN extract_function_calls_shell(ShJoinLines(func_body_lines), known)
                 ELSE <<>>
        func_info == (IF found # <<>> THEN [calls |-> found] ELSE <<>>)
                     @@ (IF doc # "" THEN [doc |-> doc] ELSE <<>>)
    IN  IF DOMAIN func_info # {}
        THEN func_info @@ [signature |-> signature]
        ELSE PlainStr(signature)

\* var_type of an export's value
ExportType(value) ==
    IF value \in {"'s'"} THEN "str"
    ELSE IF value \in {"1"} THEN "number"
    ELSE "value"

VARIABLES
    \* where the scan stands: "idle", "scan" (in the for loop), "done"
    sh_pc,
    \* the locals of extract_shell_signatures: lines, i, result,
    \* all_function_names
    sh_lines, sh_i, sh_result, sh_all_function_names

shVars == <<sh_pc, sh_lines, sh_i, sh_result, sh_all_function_names>>

ShIdle ==
    /\ sh_pc = "idle"
    /\ sh_lines = <<>> /\ sh_i = 0 /\ sh_result = <<>>
    /\ sh_all_function_names = {}

\* the first pass adding to the names an earlier call collected
ShStart_Leaky(content) ==
    /\ sh_pc' = "scan"
    /\ sh_lines' = content
    /\ sh_i' = 0
    /\ sh_result' = [functions |-> <<>>, variables |-> <<>>, exports |-> <<>>,
                     sources |-> <<>>, call_graph |-> <<>>]
    /\ sh_all_function_names' =
          sh_all_function_names
          \cup {content[k].name : k \in {n \in 1..Len(content) : FirstPassMatch(content[n])}}

\* the call up to the for loop
ShStart(content) ==
    /\ sh_pc' = "scan"
    /\ sh_lines' = content
    /\ sh_i' = 0
    /\ sh_result' = [functions |-> <<>>, variables |-> <<>>, exports |-> <<>>,
                     sources |-> <<>>, call_graph |-> <<>>]
    /\ sh_all_function_names' =
          {content[k].name : k \in {n \in 1..Len(content) : FirstPassMatch(content[n])}}

\* one iteration of the for loop on line = lines[i]: lines 976-1173
ShLineStep(res, ls, k, known) ==
    LET line == ls[k + 1]
    IN  IF line.k \in {"blank", "shebang"} THEN res
        ELSE IF func_pattern1_match(line) \/ func_pattern2_match(line)
        THEN [res EXCEPT !.functions = DictSet(@, line.name, ShFunctionEntry(ls, k, known))]
        ELSE IF export_match(line)
        THEN (IF line.arg # ""
              THEN [res EXCEPT !.exports = DictSet(@, line.name, ExportType(line.arg))]
              ELSE res)
        ELSE IF sh_var_match(line)
        THEN (IF ~DictHas(res.exports, line.name) /\ line.name \notin Range(res.variables)
              THEN [res EXCEPT !.variables = Append(@, line.name)]
              ELSE res)
        ELSE IF source_match(line)
        THEN (IF line.name # "" /\ line.name \notin Range(res.sources)
              THEN [res EXCEPT !.sources = Append(@, line.name)]
              ELSE res)
        ELSE res

ShStep ==
    /\ sh_pc = "scan"
    /\ sh_i < Len(sh_lines)
    /\ sh_result' = ShLineStep(sh_result, sh_lines, sh_i, sh_all_function_names)
    /\ sh_i' = sh_i + 1
    /\ UNCHANGED <<sh_pc, sh_lines, sh_all_function_names>>

\* lines 1175-1183: the empty collections go, the result is returned
ShFinish ==
    /\ sh_pc = "scan"
    /\ sh_i >= Len(sh_lines)
    /\ sh_pc' = "done"
    /\ sh_result' = PruneKeys(sh_result, <<"variables", "exports", "sources">>)
    /\ UNCHANGED <<sh_lines, sh_i, sh_all_function_names>>

\* the lines the shell scripts of the model are made of
ShAlphabet ==
    {ShLine("comment", 0, "doc", "", <<>>, ""),
     ShLine("func1", 0, "greet", "{}", <<1>>, "echo"),
     ShLine("func1", 0, "greet", "{", <<>>, ""),
     ShLine("func1", 0, "greet", "", <<>>, ""),
     ShLine("func2", 0, "f", "{", <<>>, ""),
     ShLine("open", 0, "", "{", <<>>, ""),
     ShLine("close", 0, "", "}", <<>>, ""),
     ShLine("cmd", 2, "echo", "", <<1>>, ""),
     ShLine("cmd", 2, "echo", "", <<3, 1>>, ""),
     ShLine("cmd", 2, "f", "", <<>>, ""),
     ShLine("export", 0, "PATH", "", <<>>, "1"),
     ShLine("var", 0, "PATH", "", <<>>, ""),
     ShLine("source", 0, "lib.sh", "", <<>>, "")}

ShFiles == SeqUpTo(ShAlphabet, MaxLines)

\* extract_shell_signatures is called on a script
ShScan == sh_pc = "idle" /\ \E content \in ShFiles : ShStart(content)

\* the lines of the scripts that declare a function inside a block, with
\* white space before its name:
\*   helper() {  (indented)  /  main()  /  {  /  helper  (indented)  /  }
ShNestedAlphabet ==
    {ShLine("func1", 2, "helper", "{", <<>>, ""),
     ShLine("func1", 0, "main", "", <<>>, ""),
     ShLine("open", 0, "", "{", <<>>, ""),
     ShLine("cmd", 2, "helper", "", <<>>, ""),
     ShLine("close", 0, "", "}", <<>>, "")}

ShNestedFiles == SeqUpTo(ShNestedAlphabet, MaxLines)

\* extract_shell_signatures is called on such a script
ShNestedScan == sh_pc = "idle" /\ \E content \in ShNestedFiles : ShStart(content)

(***************************************************************************)
(* extract_javascript_signatures.  The content of a file is a sequence of *)
(* tokens: words (\w+), punctuation, a quoted string as one token, and    *)
(* white space (" " and "\n").  Position k of the model is offset k - 1   *)
(* of the code.  The inputs have no export keyword, no generics, no       *)
(* TypeScript type or interface declaration and no JSDoc comment, so the  *)
(* loops of lines 591 and 621 and the searches of lines 627 and 718 find  *)
(* nothing.                                                                *)
(***************************************************************************)
\* the token at position k, "" beyond the content
JsTok(content, k) == IF k >= 1 /\ k <= Len(content) THEN content[k] ELSE ""

\* \s+ from position k: the position after it, 0 when there is none
Spaces1(content, k) ==
    IF JsTok(content, k) \in WhiteSpace THEN SkipSpace(content, k + 1) ELSE 0

\* content.find(tok, k): the first position from k on that holds one of
\* toks, 0 when there is none
RECURSIVE FindTok(_, _, _)
FindTok(content, k, toks) ==
    IF k > Len(content) THEN 0
    ELSE IF JsTok(content, k) \in toks THEN k
    ELSE FindTok(content, k + 1, toks)

\* content[from:to], to excluded
Slice(content, from, to) == SubSeq(content, from, to - 1)

\* s.strip()
RECURSIVE Strip(_)
Strip(s) ==
    IF s = <<>> THEN s
    ELSE IF Head(s) \in WhiteSpace THEN Strip(Tail(s))
    ELSE IF s[Len(s)] \in WhiteSpace THEN Strip(SubSeq(s, 1, Len(s) - 1))
    ELSE s

\* re.sub(r'\s+', ' ', s)
RECURSIVE Collapse(_)
Collapse(s) ==
    IF s = <<>> THEN s
    ELSE IF Head(s) \in WhiteSpace
    THEN <<" ">> \o Collapse(SubSeq(s, SkipSpace(s, 1), Len(s)))
    ELSE <<Head(s)>> \o Collapse(Tail(s))

\* lines 560-561
pos_to_line(content, pos) ==
    Cardinality({k \in 1..(pos - 1) : content[k] = "\n"}) + 1

\* re.finditer: the starts of the successive matches, none overlapping
\* another; ends[k] is the position after the match that starts at k, 0
\* when none starts there
RECURSIVE FindIter(_, _)
FindIter(ends, k) ==
    IF k > Len(ends) THEN <<>>
    ELSE IF ends[k] > 0 THEN <<k>> \o FindIter(ends, ends[k])
    ELSE FindIter(ends, k + 1)

\* the words of the inputs that start with a lower-case letter, the words
\* that match [A-Z_][A-Z0-9_]*, the quoted strings and the numbers
JsLowerWords ==
    {"class", "extends", "function", "async", "const", "let", "var",
     "constructor", "static", "enum", "import", "from", "return", "if",
     "catch", "require", "as", "get", "a", "b", "f", "g", "m", "x"}

JsUpperWords == {"A", "B", "C", "E", "MAX"}

JsStrings == {"'mod'", "'lib'"}

JsNumbers == {"1"}

\* the text between the quotes
Unquote(t) == IF t = "'mod'" THEN "mod" ELSE "lib"

\* (?:async\s+)? from k, taken: the position after it, 0 when it does not
\* match
AsyncAt(content, k) ==
    IF JsTok(content, k) = "async" THEN Spaces1(content, k + 1) ELSE 0

\* (?:async\s+)?\( from k: the position of the "(", 0 when no match
OpenParenAt(content, k) ==
    IF JsTok(content, k) = "(" THEN k
    ELSE IF AsyncAt(content, k) > 0 /\ JsTok(content, AsyncAt(content, k)) = "("
    THEN AsyncAt(content, k)
    ELSE 0

\* [^)]*\) from k: the position of the ")", 0 when there is none
CloseParen(content, k) == FindTok(content, k, {")"})

\* (?:async\s+)?function\s+(\w+) at k: the position of the name, 0 when
\* no match
FunctionNameAt(content, k) ==
    LET f == IF JsTok(content, k) = "async" /\ AsyncAt(content, k) > 0
             THEN AsyncAt(content, k) ELSE k
        n == Spaces1(content, f + 1)
    IN  IF JsTok(content, f) = "function" /\ n > 0 /\ IsWord(JsTok(content, n))
        THEN n ELSE 0

\* (?:const|let|var)\s+(\w+)\s*=\s*(?:async\s+)?\( at k: the position of
\* the name, 0 when no match
AssignedNameAt(content, k) ==
    LET n == Spaces1(content, k + 1)
        e == SkipSpace(content, n + 1)
    IN  IF /\ JsTok(content, k) \in {"const", "let", "var"}
           /\ n > 0 /\ IsWord(JsTok(content, n))
           /\ JsTok(content, e) = "="
           /\ OpenParenAt(content, SkipSpace(content, e + 1)) > 0
        THEN n ELSE 0

\* (\w+)\s*\([^)]*\)\s*{ at k: the position of the "{", 0 when no match
BlockHeadAt(content, k) ==
    LET q == SkipSpace(content, k + 1)
        r == CloseParen(content, q + 1)
        b == SkipSpace(content, r + 1)
    IN  IF /\ IsWord(JsTok(content, k))
           /\ JsTok(content, q) = "("
           /\ r > 0
           /\ JsTok(content, b) = "{"
        THEN b ELSE 0

\* lines 564-573: the first pass
JsFunctionNames(content) ==
    LET P == 1..Len(content)
        declared == [k \in P |-> IF FunctionNameAt(content, k) > 0
                                 THEN FunctionNameAt(content, k) + 1 ELSE 0]
        assigned == [k \in P |-> IF AssignedNameAt(content, k) > 0
                                 THEN OpenParenAt(content,
                                        SkipSpace(content,
                                          SkipSpace(content, AssignedNameAt(content, k) + 1) + 1)) + 1
                                 ELSE 0]
        heads == [k \in P |-> IF BlockHeadAt(content, k) > 0
                              THEN BlockHeadAt(content, k) + 1 ELSE 0]
    IN  {content[FunctionNameAt(content, k)] : k \in Range(FindIter(declared, 1))}
        \cup {content[AssignedNameAt(content, k)] : k \in Range(FindIter(assigned, 1))}
        \cup {content[k] : k \in Range(FindIter(heads, 1))}

\* import_pattern at k: the position of the quoted module, 0 when no match
ImportAt(content, k) ==
    LET s == Spaces1(content, k + 1)
        \* ([^{}\s]+)
        run == FindTok(content, s, {"{", "}", " ", "\n"})
        \* {([^}]+)}
        close == FindTok(content, s + 1, {"}"})
        \* \*\s+as\s+(\w+)
        as == Spaces1(content, s + 1)
        alias == Spaces1(content, as + 1)
        clauses ==
            (IF run > s THEN {run} ELSE {})
            \cup (IF JsTok(content, s) = "{" /\ close > s + 1 THEN {close + 1} ELSE {})
            \cup (IF /\ JsTok(content, s) = "*" /\ as > 0 /\ JsTok(content, as) = "as"
                     /\ alias > 0 /\ IsWord(JsTok(content, alias))
                  THEN {alias + 1} ELSE {})
        Module(e) == Spaces1(content, Spaces1(content, e) + 1)
        ok == {e \in clauses :
                 /\ Spaces1(content, e) > 0
                 /\ JsTok(content, Spaces1(content, e)) = "from"
                 /\ Module(e) > 0
                 /\ JsTok(content, Module(e)) \in JsStrings}
    IN  IF JsTok(content, k) = "import" /\ s > 0 /\ ok # {}
        THEN Module(CHOOSE e \in ok : TRUE) ELSE 0

\* require_pattern at k: the position of the quoted module, 0 when no match
RequireAt(content, k) ==
    LET s == Spaces1(content, k + 1)
        close == FindTok(content, s + 1, {"}"})
        e == IF JsTok(content, s) = "{" /\ close > s + 1 THEN close + 1
             ELSE IF IsWord(JsTok(content, s)) THEN s + 1
             ELSE 0
        eq == SkipSpace(content, e)
        req == SkipSpace(content, eq + 1)
        paren == SkipSpace(content, req + 1)
    IN  IF /\ JsTok(content, k) \in {"const", "let", "var"}
           /\ s > 0 /\ e > 0
           /\ JsTok(content, eq) = "="
           /\ JsTok(content, req) = "require"
           /\ JsTok(content, paren) = "("
           /\ JsTok(content, paren + 1) \in JsStrings
           /\ JsTok(content, paren + 2) = ")"
        THEN paren + 1 ELSE 0

\* lines 577-586: result['imports']
JsImports(content) ==
    LET P == 1..Len(content)
        imports == [k \in P |-> IF ImportAt(content, k) > 0
                                THEN ImportAt(content, k) + 1 ELSE 0]
        requires == [k \in P |-> IF RequireAt(content, k) > 0
                                 THEN RequireAt(content, k) + 3 ELSE 0]
        found == FindIter(imports, 1)
        required == FindIter(requires, 1)
    IN  [n \in 1..Len(found) |-> Unquote(content[ImportAt(content, found[n])])]
        \o [n \in 1..Len(required) |-> Unquote(content[RequireAt(content, required[n])])]

\* the position of the "}" that brings brace_count to 0, scanning from k up
\* to (not including) stop; 0 when there is none
RECURSIVE MatchingClose(_, _, _, _)
MatchingClose(content, k, stop, brace_count) ==
    IF k >= stop \/ k > Len(content) THEN 0
    ELSE IF content[k] = "{" THEN MatchingClose(content, k + 1, stop, brace_count + 1)
    ELSE IF content[k] = "}"
    THEN (IF brace_count - 1 = 0 THEN k
          ELSE MatchingClose(content, k + 1, stop, brace_count - 1))
    ELSE MatchingClose(content, k + 1, stop, brace_count)

\* enum_pattern  enum\s+(\w+)\s*{  at k: the position of the "{", 0 when
\* no match
EnumAt(content, k) ==
    LET n == Spaces1(content, k + 1)
        b == SkipSpace(content, n + 1)
    IN  IF /\ JsTok(content, k) = "enum"
           /\ n > 0 /\ IsWord(JsTok(content, n))
           /\ JsTok(content, b) = "{"
        THEN b ELSE 0

\* value_pattern  (\w+)\s*(?:=\s*[^,\n]+)?  at k of an enum body: the
\* position after the match, 0 when no match.  The text between the quotes
\* of a quoted string is a word too, and the closing quote ends its match
EnumValueEnd(enum_body, k) ==
    LET q == SkipSpace(enum_body, k + 1)
        r == SkipSpace(enum_body, q + 1)
        \* where [^,\n]+ can start once \s* has given back what it must
        starts == {s \in (q + 1)..r : JsTok(enum_body, s) \notin {",", "\n", ""}}
        first == Max(starts)
        stop == FindTok(enum_body, first, {",", "\n"})
    IN  IF JsTok(enum_body, k) \in JsStrings THEN k + 1
        ELSE IF ~IsWord(JsTok(enum_body, k)) THEN 0
        ELSE IF JsTok(enum_body, q) = "=" /\ starts # {}
        THEN (IF stop = 0 THEN Len(enum_body) + 1 ELSE stop)
        ELSE q

\* re.findall(value_pattern, enum_body)
EnumValues(enum_body) ==
    LET ends == [k \in 1..Len(enum_body) |-> EnumValueEnd(enum_body, k)]
        found == FindIter(ends, 1)
    IN  [n \in 1..Len(found) |->
            IF enum_body[found[n]] \in JsStrings THEN Unquote(enum_body[found[n]])
            ELSE enum_body[found[n]]]

\* lines 633-654: result['enums']
RECURSIVE JsEnumsFrom(_, _, _)
JsEnumsFrom(content, found, enums) ==
    IF found = <<>> THEN enums
    ELSE LET start_pos == EnumAt(content, Head(found)) + 1
             close == MatchingClose(content, start_pos, Len(content) + 1, 1)
             end_pos == IF close > 0 THEN close ELSE start_pos
             enum_name == content[Spaces1(content, Head(found) + 1)]
         IN  JsEnumsFrom(content, Tail(found),
                         DictSet(enums, enum_name,
                                 [values |-> EnumValues(Slice(content, start_pos, end_pos))]))

JsEnums(content) ==
    LET ends == [k \in 1..Len(content) |-> IF EnumAt(content, k) > 0
                                           THEN EnumAt(content, k) + 1 ELSE 0]
    IN  JsEnumsFrom(content, FindIter(ends, 1), <<>>)

\* where [^x]+ can start after an \s* that ran from position from to
\* position to: \s* gives back white space until the class has a token
ValueStart(content, from, to, excluded) ==
    LET starts == {s \in from..to : JsTok(content, s) \notin (excluded \cup {""})}
    IN  IF starts = {} THEN 0 ELSE Max(starts)

\* keyword\s+([A-Z_][A-Z0-9_]*)\s*=\s*([^;]+) at k, for const_pattern and
\* static_const_pattern: the position where group 2 starts, 0 when no match
ConstAt(content, k, keyword) ==
    LET n == Spaces1(content, k + 1)
        e == SkipSpace(content, n + 1)
    IN  IF /\ JsTok(content, k) = keyword
           /\ n > 0 /\ JsTok(content, n) \in JsUpperWords
           /\ JsTok(content, e) = "="
        THEN ValueStart(content, e + 1, SkipSpace(content, e + 1), {";"})
        ELSE 0

\* the position after group 2 of a match whose group 2 starts at v
ConstEnd(content, v) ==
    IF FindTok(content, v, {";"}) = 0 THEN Len(content) + 1
    ELSE FindTok(content, v, {";"})

\* lines 661-669 and 806-814: const_type of the stripped value
JsConstType(const_value) ==
    IF const_value # <<>> /\ const_value[1] \in {"{", "["} THEN "collection"
    ELSE IF const_value # <<>> /\ const_value[1] \in JsStrings \cup {"'"} THEN "str"
    ELSE IF /\ Range(const_value) \subseteq JsNumbers \cup {".", "-"}
            /\ Range(const_value) \cap JsNumbers # {}
    THEN "number"
    ELSE "value"

\* the constants a pattern finds in content, added to a dict
RECURSIVE ConstsFrom(_, _, _, _)
ConstsFrom(content, keyword, found, consts) ==
    IF found = <<>> THEN consts
    ELSE LET v == ConstAt(content, Head(found), keyword)
             const_name == content[Spaces1(content, Head(found) + 1)]
             const_value == Strip(Slice(content, v, ConstEnd(content, v)))
         IN  ConstsFrom(content, keyword, Tail(found),
                        DictSet(consts, const_name, JsConstType(const_value)))

JsConsts(content, keyword, consts) ==
    LET ends == [k \in 1..Len(content) |->
                    IF ConstAt(content, k, keyword) > 0
                    THEN ConstEnd(content, ConstAt(content, k, keyword)) ELSE 0]
    IN  ConstsFrom(content, keyword, FindIter(ends, 1), consts)

\* a token that starts with "="
StartsEq(t) == t \in {"=", "=>"}

\* var_pattern  (?:let|const)\s+([a-z]\w*)\s*(?::\s*\w+)?\s*=  at k: the
\* position after the match, 0 when no match
VarEnd(content, k) ==
    LET n == Spaces1(content, k + 1)
        e == SkipSpace(content, n + 1)
        t == SkipSpace(content, e + 1)
        e2 == SkipSpace(content, t + 1)
    IN  IF ~(/\ JsTok(content, k) \in {"let", "const"}
             /\ n > 0 /\ JsTok(content, n) \in JsLowerWords)
        THEN 0
        ELSE IF /\ JsTok(content, e) = ":" /\ IsWord(JsTok(content, t))
                /\ StartsEq(JsTok(content, e2))
        THEN e2 + 1
        ELSE IF StartsEq(JsTok(content, e)) THEN e + 1
        ELSE 0

\* lines 673-677: result['variables']
RECURSIVE VarsFrom(_, _, _)
VarsFrom(content, found, variables) ==
    IF found = <<>> THEN variables
    ELSE LET var_name == content[Spaces1(content, Head(found) + 1)]
         IN  VarsFrom(content, Tail(found),
                      IF var_name \notin Range(variables)
                      THEN Append(variables, var_name) ELSE variables)

JsVariables(content) ==
    VarsFrom(content, FindIter([k \in 1..Len(content) |-> VarEnd(content, k)], 1), <<>>)

\* class_pattern  class\s+(\w+)(?:\s+extends\s+(\w+))?  at k: the position
\* of the class name, 0 when no match
ClassAt(content, k) ==
    LET n == Spaces1(content, k + 1)
    IN  IF JsTok(content, k) = "class" /\ n > 0 /\ IsWord(JsTok(content, n))
        THEN n ELSE 0

\* the position of group 2 of a match with its name at n, 0 when the group
\* takes no part
ExtendsAt(content, n) ==
    LET x == Spaces1(content, n + 1)
        y == Spaces1(content, x + 1)
    IN  IF x > 0 /\ JsTok(content, x) = "extends" /\ y > 0 /\ IsWord(JsTok(content, y))
        THEN y ELSE 0

\* match.end() of a match with its name at n
ClassMatchEnd(content, n) ==
    IF ExtendsAt(content, n) > 0 THEN ExtendsAt(content, n) + 1 ELSE n + 1

\* lines 692-701: the position of the "}" that closes the class body,
\* scanning from k; 0 when the loop ends without one
RECURSIVE ClassClose(_, _, _, _)
ClassClose(content, k, brace_count, in_class) ==
    IF k > Len(content) THEN 0
    ELSE IF content[k] = "{" THEN ClassClose(content, k + 1, brace_count + 1, TRUE)
    ELSE IF content[k] = "}"
    THEN (IF brace_count - 1 = 0 /\ in_class THEN k
          ELSE ClassClose(content, k + 1, brace_count - 1, in_class))
    ELSE ClassClose(content, k + 1, brace_count, in_class)

\* the words of the inputs that are 'error' or 'exception' in lower case,
\* or contain 'error' in lower case
JsExceptionBases == {"Error"}

\* lines 683-722: class_positions and result['classes'] after the matches
\* found, in order
RECURSIVE ClassesFrom(_, _, _)
ClassesFrom(content, found, acc) ==
    IF found = <<>> THEN acc
    ELSE LET start_pos == Head(found)
             n == ClassAt(content, start_pos)
             class_name == content[n]
             x == ExtendsAt(content, n)
             close == ClassClose(content, ClassMatchEnd(content, n), 0, FALSE)
             end_pos == IF close > 0 THEN close ELSE start_pos
             class_info ==
                 [line |-> pos_to_line(content, start_pos),
                  methods |-> <<>>,
                  static_constants |-> <<>>]
                 @@ (IF x > 0 THEN [extends |-> content[x]] ELSE <<>>)
                 @@ (IF x > 0 /\ content[x] \in JsExceptionBases
                     THEN [type |-> "exception"] ELSE <<>>)
         IN  ClassesFrom(content, Tail(found),
                         [class_positions |->
                              DictSet(acc.class_positions, class_name, <<start_pos, end_pos>>),
                          classes |-> DictSet(acc.classes, class_name, class_info)])

JsClasses(content) ==
    LET ends == [k \in 1..Len(content) |->
                    IF ClassAt(content, k) > 0
                    THEN ClassMatchEnd(content, ClassAt(content, k)) ELSE 0]
    IN  ClassesFrom(content, FindIter(ends, 1),
                    [class_positions |-> <<>>, classes |-> <<>>])

\* the scans for a body give up when the "{" is this far from the match,
\* and after this many positions of a method or function body
BraceSearchLimit == 100

MethodScanLimit == 3000

FunctionScanLimit == 5000

\* lines 763-768 and 845-850: the signature, in tokens
JsSignature(params, has_return_type, return_type, is_async) ==
    (IF is_async THEN <<"async", " ">> ELSE <<>>)
    \o <<"(">> \o Strip(Collapse(params)) \o <<")">>
    \o (IF has_return_type THEN <<":", " ">> \o Strip(return_type) ELSE <<>>)

\* a match of one of the method or function patterns: the position after
\* it, its name and its signature; no match is end = 0
NoMatch == [end |-> 0, name |-> "", signature |-> <<>>]

Matched(content, k, end, name, params, has_return_type, return_type) ==
    [end |-> end, name |-> name,
     signature |-> JsSignature(params, has_return_type, return_type,
                               "async" \in Range(Slice(content, k, end)))]

\* ^ under re.MULTILINE
LineStart(content, k) == k = 1 \/ JsTok(content, k - 1) = "\n"

\* \)\s*(?::\s*([^{]+))?\s*{ with the ")" at r: the position of the "{",
\* 0 when no match
BraceAfterParen(content, r) ==
    LET t == SkipSpace(content, r + 1)
        b == FindTok(content, t + 1, {"{"})
    IN  IF JsTok(content, r) # ")" THEN 0
        ELSE IF JsTok(content, t) = "{" THEN t
        ELSE IF JsTok(content, t) = ":" /\ b > t + 1 THEN b
        ELSE 0

\* \((.*?)\)... from the "(" at q: the nearest ")" of the same line after
\* which the rest of the pattern matches, 0 when there is none
LazyCloseParen(content, q) ==
    LET line_end == IF FindTok(content, q, {"\n"}) = 0 THEN Len(content) + 1
                    ELSE FindTok(content, q, {"\n"})
        closes == {r \in (q + 1)..(line_end - 1) : BraceAfterParen(content, r) > 0}
    IN  IF closes = {} THEN 0 ELSE CHOOSE r \in closes : \A r2 \in closes : r <= r2

\* method_patterns[0] with group 2 at n
MethodFrom(content, k, n) ==
    LET q == SkipSpace(content, n + 1)
        r == LazyCloseParen(content, q)
        b == BraceAfterParen(content, r)
        t == SkipSpace(content, r + 1)
    IN  IF IsWord(JsTok(content, n)) /\ JsTok(content, q) = "(" /\ r > 0
        THEN Matched(content, k, b + 1, content[n], Slice(content, q + 1, r),
                     JsTok(content, t) = ":", Slice(content, t + 1, b))
        ELSE NoMatch

\* method_patterns[0]
\*   ^\s*(async\s+)?(\w+)\s*\((.*?)\)\s*(?::\s*([^{]+))?\s*{   at k
MethodPattern(content, k) ==
    LET w == SkipSpace(content, k)
        a == AsyncAt(content, w)
    IN  IF ~LineStart(content, k) THEN NoMatch
        ELSE IF a > 0 /\ MethodFrom(content, k, a).end > 0 THEN MethodFrom(content, k, a)
        ELSE MethodFrom(content, k, w)

\* \)\s*(?::\s*([^=]+))?\s*=> with the ")" at r: the position of the "=>",
\* 0 when no match
ArrowAfterParen(content, r) ==
    LET t == SkipSpace(content, r + 1)
        z == FindTok(content, t + 1, {"=", "=>"})
    IN  IF r = 0 THEN 0
        ELSE IF JsTok(content, t) = "=>" THEN t
        ELSE IF JsTok(content, t) = ":" /\ z > t + 1 /\ content[z] = "=>" THEN z
        ELSE 0

\* =\s*(?:async\s+)?\(([^)]*)\)\s*(?::\s*([^=]+))?\s*=> with the "=" at e,
\* in a match that starts at k and names the token at n
ArrowFrom(content, k, n, e) ==
    LET p == OpenParenAt(content, SkipSpace(content, e + 1))
        r == CloseParen(content, p + 1)
        z == ArrowAfterParen(content, r)
        t == SkipSpace(content, r + 1)
    IN  IF e > 0 /\ JsTok(content, e) = "=" /\ p > 0 /\ z > 0
        THEN Matched(content, k, z + 1, content[n], Slice(content, p + 1, r),
                     JsTok(content, t) = ":", Slice(content, t + 1, z))
        ELSE NoMatch

\* method_patterns[1]
\*   ^\s*(\w+)\s*=\s*(?:async\s+)?\(([^)]*)\)\s*(?::\s*([^=]+))?\s*=>   at k
ArrowPattern(content, k) ==
    LET w == SkipSpace(content, k)
    IN  IF LineStart(content, k) /\ IsWord(JsTok(content, w))
        THEN ArrowFrom(content, k, w, SkipSpace(content, w + 1))
        ELSE NoMatch

\* method_patterns[2]   ^\s*(constructor)\s*\(([^)]*)\)\s*{   at k; the
\* method is named __init__
ConstructorPattern(content, k) ==
    LET w == SkipSpace(content, k)
        q == SkipSpace(content, w + 1)
        r == CloseParen(content, q + 1)
        b == SkipSpace(content, r + 1)
    IN  IF /\ LineStart(content, k)
           /\ JsTok(content, w) = "constructor"
           /\ JsTok(content, q) = "("
           /\ r > 0
           /\ JsTok(content, b) = "{"
        THEN Matched(content, k, b + 1, "__init__", Slice(content, q + 1, r), FALSE, <<>>)
        ELSE NoMatch

\* the pattern of number n of method_patterns at k
MethodPatternAt(n, content, k) ==
    CASE n = 1 -> MethodPattern(content, k)
      [] n = 2 -> ArrowPattern(content, k)
      [] n = 3 -> ConstructorPattern(content, k)

\* func_patterns[0]
\*   (?:async\s+)?function\s+(\w+)\s*\(([^)]*)\)(?:\s*:\s*([^{]+))?   at k
FunctionPattern(content, k) ==
    LET n == FunctionNameAt(content, k)
        q == SkipSpace(content, n + 1)
        r == CloseParen(content, q + 1)
        t == SkipSpace(content, r + 1)
        b == IF FindTok(content, t + 1, {"{"}) = 0 THEN Len(content) + 1
             ELSE FindTok(content, t + 1, {"{"})
        typed == JsTok(content, t) = ":" /\ b > t + 1
    IN  IF n > 0 /\ JsTok(content, q) = "(" /\ r > 0
        THEN Matched(content, k, IF typed THEN b ELSE r + 1, content[n],
                     Slice(content, q + 1, r), typed, Slice(content, t + 1, b))
        ELSE NoMatch

\* func_patterns[1]
\*   const\s+(\w+)\s*(?::\s*[^=]+)?\s*=\s*(?:async\s+)?\(([^)]*)\)
\*   \s*(?::\s*([^=]+))?\s*=>   at k
ConstArrowPattern(content, k) ==
    LET n == Spaces1(content, k + 1)
        e == SkipSpace(content, n + 1)
        z == FindTok(content, e + 1, {"=", "=>"})
    IN  IF JsTok(content, k) = "const" /\ n > 0 /\ IsWord(JsTok(content, n))
        THEN ArrowFrom(content, k, n,
                       IF JsTok(content, e) = ":" THEN (IF z > e + 1 THEN z ELSE 0) ELSE e)
        ELSE NoMatch

\* the pattern of number n of func_patterns at k
FuncPatternAt(n, content, k) ==
    CASE n = 1 -> FunctionPattern(content, k)
      [] n = 2 -> ConstArrowPattern(content, k)

\* lines 771-793 and 853-875: the calls of the body found after a match
\* that ends before position after, [] when no body is found
BodyCalls(content, after, scan_limit, known) ==
    LET brace_pos == FindTok(content, after, {"{"})
        body_start == brace_pos + 1
        stop == IF Len(content) + 1 < body_start + scan_limit
                THEN Len(content) + 1 ELSE body_start + scan_limit
        close == MatchingClose(content, body_start, stop, 1)
        body_end == IF close > 0 THEN close ELSE body_start
    IN  IF brace_pos > 0 /\ brace_pos - after < BraceSearchLimit /\ body_end > body_start
        THEN extract_function_calls_javascript(Slice(content, body_start, body_end), known)
        ELSE <<>>

\* method_info or func_info of a match m at position line_pos of the file
JsInfo(file, line_pos, content, m, scan_limit, known) ==
    LET found == BodyCalls(content, m.end, scan_limit, known)
    IN  [line |-> pos_to_line(file, line_pos)]
        @@ (IF found # <<>> THEN [calls |-> found] ELSE <<>>)
        @@ [signature |-> m.signature]

\* lines 755-756
skip_methods == {"get", "set", "if", "for", "while", "switch", "catch", "try"}

\* lines 738-800 for one pattern: the methods dict after its matches
RECURSIVE MethodsFrom(_, _, _, _, _, _, _)
MethodsFrom(file, start, class_content, n, found, methods, known) ==
    IF found = <<>> THEN methods
    ELSE LET m == MethodPatternAt(n, class_content, Head(found))
         IN  MethodsFrom(file, start, class_content, n, Tail(found),
                         IF m.name \in skip_methods THEN methods
                         ELSE DictSet(methods, m.name,
                                      JsInfo(file, start + Head(found) - 1, class_content,
                                             m, MethodScanLimit, known)),
                         known)

\* lines 737-800: the methods dict after the patterns from number n on
RECURSIVE MethodsOfPatterns(_, _, _, _, _, _)
MethodsOfPatterns(file, start, class_content, n, methods, known) ==
    IF n > 3 THEN methods
    ELSE LET ends == [k \in 1..Len(class_content) |-> MethodPatternAt(n, class_content, k).end]
         IN  MethodsOfPatterns(file, start, class_content, n + 1,
                               MethodsFrom(file, start, class_content, n,
                                           FindIter(ends, 1), methods, known),
                               known)

\* lines 734-815 for one class: result['classes'] after it
JsClassMembers(file, classes0, class_name, span, known) ==
    LET class_content == Slice(file, span[1], span[2])
        class_info == DictGet(classes0, class_name)
        methods == MethodsOfPatterns(file, span[1], class_content, 1,
                                     class_info.methods, known)
        static_constants == JsConsts(class_content, "static", class_info.static_constants)
    IN  DictSet(classes0, class_name,
                [class_info EXCEPT !.methods = methods,
                                   !.static_constants = static_constants])

\* lines 832-837
InsideClass(class_positions, func_pos) ==
    \E c \in 1..Len(class_positions) :
        class_positions[c][2][1] <= func_pos /\ func_pos <= class_positions[c][2][2]

\* lines 826-882 for one pattern: the functions dict after its matches
RECURSIVE FunctionsFrom(_, _, _, _, _, _)
FunctionsFrom(file, n, found, class_positions, functions0, known) ==
    IF found = <<>> THEN functions0
    ELSE LET m == FuncPatternAt(n, file, Head(found))
         IN  FunctionsFrom(file, n, Tail(found), class_positions,
                           IF InsideClass(class_positions, Head(found)) THEN functions0
                           ELSE DictSet(functions0, m.name,
                                        JsInfo(file, Head(found), file, m,
                                               FunctionScanLimit, known)),
                           known)

\* lines 825-882: result['functions']
RECURSIVE JsFunctions(_, _, _, _, _)
JsFunctions(file, n, class_positions, functions0, known) ==
    IF n > 2 THEN functions0
    ELSE LET ends == [k \in 1..Len(file) |-> FuncPatternAt(n, file, k).end]
         IN  JsFunctions(file, n + 1, class_positions,
                         FunctionsFrom(file, n, FindIter(ends, 1), class_positions,
                                       functions0, known),
                         known)

VARIABLES
    \* where the scan stands: "idle", "imports", "enums", "constants",
    \* "variables", "classes", "members", "cleanup", "done"
    js_pc,
    \* the argument and the locals of extract_javascript_signatures:
    \* content, result, all_function_names, class_positions
    js_content, js_result, js_all_function_names, class_positions,
    \* the number of the class whose members the loop of line 734 scans next
    js_class

jsVars == <<js_pc, js_content, js_result, js_all_function_names, class_positions, js_class>>

JsIdle ==
    /\ js_pc = "idle"
    /\ js_content = <<>> /\ js_result = <<>>
    /\ js_all_function_names = {} /\ class_positions = <<>>
    /\ js_class = 0

\* lines 547-573: the result is created and the first pass collects names
JsStart(content) ==
    /\ js_pc' = "imports"
    /\ js_content' = content
    /\ js_result' = [imports |-> <<>>, functions |-> <<>>, classes |-> <<>>,
                     constants |-> <<>>, variables |-> <<>>, type_aliases |-> <<>>,
                     interfaces |-> <<>>, enums |-> <<>>, call_graph |-> <<>>]
    /\ js_all_function_names' = JsFunctionNames(content)
    /\ class_positions' = <<>>
    /\ js_class' = 0

\* lines 575-630
JsScanImports ==
    /\ js_pc = "imports"
    /\ js_pc' = "enums"
    /\ js_result' = [js_result EXCEPT !.imports = JsImports(js_content)]
    /\ UNCHANGED <<js_content, js_all_function_names, class_positions, js_class>>

\* lines 632-654
JsScanEnums ==
    /\ js_pc = "enums"
    /\ js_pc' = "constants"
    /\ js_result' = [js_result EXCEPT !.enums = JsEnums(js_content)]
    /\ UNCHANGED <<js_content, js_all_function_names, class_positions, js_class>>

\* lines 656-670
JsScanConstants ==
    /\ js_pc = "constants"
    /\ js_pc' = "variables"
    /\ js_result' = [js_result EXCEPT !.constants = JsConsts(js_content, "const", <<>>)]
    /\ UNCHANGED <<js_content, js_all_function_names, class_positions, js_class>>

\* lines 672-677
JsScanVariables ==
    /\ js_pc = "variables"
    /\ js_pc' = "classes"
    /\ js_result' = [js_result EXCEPT !.variables = JsVariables(js_content)]
    /\ UNCHANGED <<js_content, js_all_function_names, class_positions, js_class>>

\* lines 679-722
JsScanClasses ==
    /\ js_pc = "classes"
    /\ js_pc' = "members"
    /\ class_positions' = JsClasses(js_content).class_positions
    /\ js_result' = [js_result EXCEPT !.classes = JsClasses(js_content).classes]
    /\ js_class' = 1
    /\ UNCHANGED <<js_content, js_all_function_names>>

\* lines 734-815: one iteration of the loop over class_positions
JsScanMembers ==
    /\ js_pc = "members"
    /\ js_class <= Len(class_positions)
    /\ js_result' = [js_result EXCEPT !.classes =
                        JsClassMembers(js_content, @, class_positions[js_class][1],
                                       class_positions[js_class][2],
                                       js_all_function_names)]
    /\ js_class' = js_class + 1
    /\ UNCHANGED <<js_pc, js_content, js_all_function_names, class_positions>>

\* lines 817-882
JsScanFunctions ==
    /\ js_pc = "members"
    /\ js_class > Len(class_positions)
    /\ js_pc' = "cleanup"
    /\ js_result' = [js_result EXCEPT !.functions =
                        JsFunctions(js_content, 1, class_positions, <<>>,
                                    js_all_function_names)]
    /\ UNCHANGED <<js_content, js_all_function_names, class_positions, js_class>>

\* lines 884-903: the empty collections go, the result is returned
JsFinish ==
    /\ js_pc = "cleanup"
    /\ js_pc' = "done"
    /\ js_result' =
          PruneKeys([js_result EXCEPT !.classes =
                        [k \in 1..Len(@) |->
                            <<@[k][1], PruneKeys(@[k][2], <<"static_constants">>)>>]],
                    <<"constants", "variables", "imports", "type_aliases",
                      "interfaces", "enums">>)
    /\ UNCHANGED <<js_content, js_all_function_names, class_positions, js_class>>

\* the lines the JavaScript files of the model are made of
JsAlphabet ==
    {<<>>,
     <<"class", " ", "A", " ", "{">>,
     <<"class", " ", "A", " ", "extends", " ", "HttpException", " ", "{">>,
     <<" ", "m", "(", ")", " ", "{", " ", "f", "(", ")", ";", " ", "}">>,
     <<" ", "constructor", "(", ")", " ", "{", " ", "}">>,
     <<"}">>,
     <<"function", " ", "f", "(", ")", " ", "{">>,
     <<" ", "f", "(", ")", ";">>,
     <<"const", " ", "g", " ", "=", " ", "(", ")", " ", "=>", " ", "{">>,
     <<"import", " ", "x", " ", "from", " ", "'mod'", ";">>,
     <<"const", " ", "MAX", " ", "=", " ", "1", ";">>}

\* '\n'.join(ls)
RECURSIVE JsJoinLines(_)
JsJoinLines(ls) ==
    IF ls = <<>> THEN <<>>
    ELSE IF Len(ls) = 1 THEN ls[1]
    ELSE ls[1] \o <<"\n">> \o JsJoinLines(Tail(ls))

JsFiles == {JsJoinLines(ls) : ls \in SeqUpTo(JsAlphabet, MaxLines)}

\* extract_javascript_signatures is called on a file
JsScan == js_pc = "idle" /\ \E content \in JsFiles : JsStart(content)

\* how many lines a file of class and function declarations has at most
MaxClassLines == 4

\* the lines of the files that declare functions inside and outside
\* classes, a class name being declared once or several times
JsClassAlphabet ==
    {<<"class", " ", "A", " ", "{">>,
     <<"class", " ", "A", " ", "{", " ", "}">>,
     <<"function", " ", "f", "(", ")", " ", "{", " ", "}">>,
     <<"const", " ", "g", " ", "=", " ", "(", ")", " ", "=>", " ", "{", " ", "}">>,
     <<"}">>}

JsClassFiles == {JsJoinLines(ls) : ls \in SeqUpTo(JsClassAlphabet, MaxClassLines)}

\* extract_javascript_signatures is called on such a file
JsClassScan == js_pc = "idle" /\ \E content \in JsClassFiles : JsStart(content)

\* the lines of the files that declare classes with methods, each method
\* with its whole body on its declaration line
JsMethodAlphabet ==
    {<<"class", " ", "A", " ", "{">>,
     <<" ", "constructor", "(", ")", " ", "{", " ", "}">>,
     <<" ", "m", "(", ")", " ", "{", " ", "m", "(", ")", ";", " ", "}">>,
     <<"}">>,
     <<"function", " ", "f", "(", ")", " ", "{", " ", "}">>}

JsMethodFiles == {JsJoinLines(ls) : ls \in SeqUpTo(JsMethodAlphabet, MaxClassLines)}

\* extract_javascript_signatures is called on such a file
JsMethodScan == js_pc = "idle" /\ \E content \in JsMethodFiles : JsStart(content)

\* the lines of the files that declare enums; a quote is a token of its
\* own here, so that the text of a string literal is scanned as written
JsEnumAlphabet ==
    {<<"enum", " ", "Color", " ", "{", " ", "Red", ",", " ", "Green", ",", " ",
       "Blue", " ", "}">>,
     <<"enum", " ", "E", " ", "{">>,
     <<" ", "A", " ", "=", " ", "'", "a", ",", " ", "b", "'", ",">>,
     <<" ", "B", " ", "=", " ", "'", "a", " ", "b", "'">>,
     <<" ", "C", " ", "=", " ", "1", ",">>,
     <<"}">>,
     <<"class", " ", "A", " ", "{">>}

JsEnumFiles == {JsJoinLines(ls) : ls \in SeqUpTo(JsEnumAlphabet, MaxLines)}

\* extract_javascript_signatures is called on a file that declares enums
JsEnumScan == js_pc = "idle" /\ \E content \in JsEnumFiles : JsStart(content)

(***************************************************************************)
(* Calls that follow one another.  A scanner is called when no call is    *)
(* running; its variables hold what its last call left until the code     *)
(* assigns them, and the locals of the other scanners' calls are gone.    *)
(***************************************************************************)
\* how many calls one behaviour makes
MaxScans == 3

\* the texts made of lines of S, each line at most once
DistinctSeqs(S) ==
    {s \in SeqUpTo(S, Cardinality(S)) :
        \A a, b \in 1..Len(s) : a # b => s[a] # s[b]}

VARIABLES
    \* the first call that returned: its scanner, its text and its result
    first_scan,
    \* the number of calls made so far
    calls_made

rsVars == <<first_scan, calls_made>>

RsIdle == first_scan = <<>> /\ calls_made = 0

NoneRunning ==
    /\ py_pc \in {"idle", "done"}
    /\ sh_pc \in {"idle", "done"}
    /\ js_pc \in {"idle", "done"}

PyRescanFiles ==
    DistinctSeqs({PyLine("def", 0, "baz", ""),
                  PyLine("def", 4, "bar", ""),
                  PyLine("stmt", 8, "", "baz")})

ShRescanFiles ==
    DistinctSeqs({ShLine("func1", 0, "greet", "{", <<>>, ""),
                  ShLine("func2", 0, "f", "{", <<>>, ""),
                  ShLine("cmd", 2, "f", "{}", <<>>, "")})

JsRescanFiles ==
    {JsJoinLines(ls) :
        ls \in DistinctSeqs({<<"function", " ", "f", "(", ")", " ", "{">>,
                             <<"class", " ", "A", " ", "{">>,
                             <<" ", "f", "(", ")", ";", " ", "}">>})}

\* the locals of a scanner's last call are gone
PyGone ==
    /\ py_pc' = "idle"
    /\ lines' = <<>> /\ i' = 0 /\ result' = <<>>
    /\ current_class' = None /\ current_class_indent' = -1
    /\ class_stack' = <<>> /\ all_function_names' = {}
    /\ pending_decorators' = <<>> /\ enum_classified' = {}

ShGone ==
    /\ sh_pc' = "idle"
    /\ sh_lines' = <<>> /\ sh_i' = 0 /\ sh_result' = <<>>
    /\ sh_all_function_names' = {}

JsGone ==
    /\ js_pc' = "idle"
    /\ js_content' = <<>> /\ js_result' = <<>>
    /\ js_all_function_names' = {} /\ class_positions' = <<>>
    /\ js_class' = 0

\* a return: the first one is kept
Returned(scanner, text, res) ==
    first_scan' = IF first_scan = <<>>
                  THEN [scanner |-> scanner, text |-> text, result |-> res]
                  ELSE first_scan

PyCall ==
    /\ NoneRunning
    /\ calls_made < MaxScans
    /\ calls_made' = calls_made + 1
    /\ \E content \in PyRescanFiles : PyStart(content)
    /\ ShGone /\ JsGone
    /\ UNCHANGED first_scan

ShCall ==
    /\ NoneRunning
    /\ calls_made < MaxScans
    /\ calls_made' = calls_made + 1
    /\ \E content \in ShRescanFiles : ShStart(content)
    /\ PyGone /\ JsGone
    /\ UNCHANGED first_scan

JsCall ==
    /\ NoneRunning
    /\ calls_made < MaxScans
    /\ calls_made' = calls_made + 1
    /\ \E content \in JsRescanFiles : JsStart(content)
    /\ PyGone /\ ShGone
    /\ UNCHANGED first_scan

PyReturn == PyFinish /\ Returned("python", lines, result') /\ UNCHANGED calls_made

ShReturn == ShFinish /\ Returned("shell", sh_lines, sh_result') /\ UNCHANGED calls_made

JsReturn == JsFinish /\ Returned("javascript", js_content, js_result') /\ UNCHANGED calls_made

(***************************************************************************)
(* i_flag_hook.py.  A prompt is a sequence of characters, a run of digits *)
(* being one element.  PROJECT_INDEX.json is missing, unreadable or holds *)
(* the _meta mapping hk_meta (a key that is not set is absent).  The      *)
(* project files have a modification time, 0 for a file that does not     *)
(* exist.                                                                  *)
(***************************************************************************)
DEFAULT_SIZE_K == 50

MIN_SIZE_K == 1

CLAUDE_MAX_K == 100

EXTERNAL_MAX_K == 800

\* the tolerance of line 162
SizeTolerance == 2

\* how many space-separated words a prompt has at most
MaxWords == 3

\* the latest modification time of the model
MaxClock == 5

\* the runs of digits of the prompts, and int() of each
HkNumbers == {"0", "50", "101", "801"}

IntOf(digits) ==
    CASE digits = "0" -> 0
      [] digits = "50" -> 50
      [] digits = "101" -> 101
      [] digits = "801" -> 801

\* the character at position k of a prompt, "" beyond it
PromptChar(prompt, k) == IF k >= 1 /\ k <= Len(prompt) THEN prompt[k] ELSE ""

\* -i(c?)(\d+)?(?:\s|$) matched at position k: c? and (\d+)? are greedy,
\* and giving back the c or the digits never yields a match, since the
\* character given back is neither white space nor the end
FlagAt(prompt, k) ==
    LET c == IF PromptChar(prompt, k + 2) = "c" THEN 1 ELSE 0
        d == IF PromptChar(prompt, k + 2 + c) \in HkNumbers THEN 1 ELSE 0
        end == k + 2 + c + d
    IN  IF /\ PromptChar(prompt, k) = "-"
           /\ PromptChar(prompt, k + 1) = "i"
           /\ (end > Len(prompt) \/ prompt[end] \in WhiteSpace)
        THEN [found |-> TRUE, c |-> c = 1,
              digits |-> IF d = 1 THEN prompt[k + 2 + c] ELSE ""]
        ELSE [found |-> FALSE, c |-> FALSE, digits |-> ""]

\* re.search of line 69: the position of the leftmost match, 0 for None
flag_search(prompt) ==
    LET hits == {k \in 1..Len(prompt) : FlagAt(prompt, k).found}
    IN  IF hits = {} THEN 0 ELSE CHOOSE k \in hits : \A j \in hits : k <= j

\* re.sub(r'-ic?\d*\s*', '', prompt) of line 100, from position k on
RECURSIVE RemoveFlags(_, _)
RemoveFlags(prompt, k) ==
    IF k > Len(prompt) THEN <<>>
    ELSE IF prompt[k] = "-" /\ PromptChar(prompt, k + 1) = "i"
    THEN LET c == IF PromptChar(prompt, k + 2) = "c" THEN 1 ELSE 0
             d == IF PromptChar(prompt, k + 2 + c) \in HkNumbers THEN 1 ELSE 0
         IN  RemoveFlags(prompt, SkipSpace(prompt, k + 2 + c + d))
    ELSE <<prompt[k]>> \o RemoveFlags(prompt, k + 1)

\* lines 45-64: the exceptions of a missing or unreadable index and a
\* falsy last_size all end in the default
get_last_interactive_size(index_file, meta) ==
    IF index_file = "ok" /\ Get(meta, "last_interactive_size_k", 0) # 0
    THEN meta["last_interactive_size_k"]
    ELSE DEFAULT_SIZE_K

\* lines 87-97 without the upper limit of clipboard mode
ClampSize_NoExternalMax(size_k, clipboard_mode) ==
    LET raised == IF size_k < MIN_SIZE_K THEN MIN_SIZE_K ELSE size_k
    IN  IF ~clipboard_mode /\ raised > CLAUDE_MAX_K THEN CLAUDE_MAX_K ELSE raised

\* lines 87-97: the size limits
ClampSize(size_k, clipboard_mode) ==
    LET raised == IF size_k < MIN_SIZE_K THEN MIN_SIZE_K ELSE size_k
    IN  IF ~clipboard_mode /\ raised > CLAUDE_MAX_K THEN CLAUDE_MAX_K
        ELSE IF clipboard_mode /\ raised > EXTERNAL_MAX_K THEN EXTERNAL_MAX_K
        ELSE raised

\* lines 66-102: the returned triple as a record, None being an absent key
parse_index_flag(prompt, index_file, meta) ==
    LET k == flag_search(prompt)
        match == FlagAt(prompt, k)
        size_k == IF match.digits # "" THEN IntOf(match.digits)
                  ELSE IF ~match.c THEN get_last_interactive_size(index_file, meta)
                  ELSE DEFAULT_SIZE_K
    IN  IF k = 0 THEN [cleaned_prompt |-> prompt]
        ELSE [size_k |-> ClampSize(size_k, match.c),
              clipboard_mode |-> match.c,
              cleaned_prompt |-> Strip(RemoveFlags(prompt, 1))]

IndexName == "PROJECT_INDEX.json"

HkFiles == {"a.py", IndexName}

NoFiles == [f \in HkFiles |-> 0]

\* meta.get('files_hash', '')
NoHash == [tag |-> "", of |-> NoFiles]

\* lines 104-139: the digest of path:mtime of the listed files that exist,
\* represented by these pairs (two lists of pairs are taken to have two
\* digests); "unknown" when the listing raises
calculate_files_hash(mtime, listed, raised) ==
    IF raised THEN [tag |-> "unknown", of |-> NoFiles]
    ELSE [tag |-> "sha256", of |-> [f \in HkFiles |-> IF f \in listed THEN mtime[f] ELSE 0]]

Abs(n) == IF n < 0 THEN 0 - n ELSE n

\* the test of lines 158-159 comparing the hashes alone
FilesChanged_NoUnknown(current_files_hash, last_files_hash) ==
    current_files_hash # last_files_hash

\* the test of lines 158-159
FilesChanged(current_files_hash, last_files_hash) ==
    current_files_hash # last_files_hash /\ current_files_hash.tag # "unknown"

\* lines 141-171: the first element of the returned pair
should_regenerate_index(index_file, meta, current_files_hash, requested_size_k) ==
    IF index_file = "missing" THEN TRUE
    ELSE IF index_file = "unreadable" THEN TRUE
    ELSE LET last_target == Get(meta, "target_size_k", 0)
             last_files_hash == Get(meta, "files_hash", NoHash)
         IN  IF FilesChanged(current_files_hash, last_files_hash) THEN TRUE
             ELSE IF Abs(requested_size_k - last_target) > SizeTolerance THEN TRUE
             ELSE FALSE

VARIABLES
    \* PROJECT_INDEX.json: "missing", "unreadable" or "ok", and its _meta
    hk_index_file, hk_meta,
    \* the modification time of each project file and the time now
    hk_mtime, hk_clock,
    \* whether the file listing of the project names PROJECT_INDEX.json
    \* (it does unless the project ignores the file)
    hk_listed,
    \* what happened last: a call with its arguments, whether its listing
    \* of the project files raised, and its return value; or a change of
    \* the project files
    hk_last

hkVars == <<hk_index_file, hk_meta, hk_mtime, hk_clock, hk_listed, hk_last>>

HkIdle ==
    /\ hk_index_file = "missing" /\ hk_meta = <<>>
    /\ hk_mtime = [f \in HkFiles |-> IF f = IndexName THEN 0 ELSE 1]
    /\ hk_clock = 1
    /\ hk_listed = TRUE
    /\ hk_last = [fn |-> "none"]

\* the files the listing of line 108 or of line 121 returns
Listed == IF hk_listed THEN HkFiles ELSE HkFiles \ {IndexName}

\* the words of the prompts:
\*   -i  -ic  -i0  -i101  -ic801  sign-in  fix
PromptWords ==
    {<<"-", "i">>,
     <<"-", "i", "c">>,
     <<"-", "i", "0">>,
     <<"-", "i", "101">>,
     <<"-", "i", "c", "801">>,
     <<"s", "i", "g", "n", "-", "i", "n">>,
     <<"f", "i", "x">>}

\* ' '.join(words)
RECURSIVE JoinWords(_)
JoinWords(words) ==
    IF words = <<>> THEN <<>>
    ELSE IF Len(words) = 1 THEN words[1]
    ELSE words[1] \o <<" ">> \o JoinWords(Tail(words))

Prompts == {JoinWords(words) : words \in SeqUpTo(PromptWords, MaxWords)}

\* the sizes the callers ask for
HkSizes == {50, 52, 53}

\* parse_index_flag is called on the prompt the hook is started with
HkParse ==
    /\ hk_last = [fn |-> "none"]
    /\ \E prompt \in Prompts :
          hk_last' = [fn |-> "parse_index_flag", prompt |-> prompt,
                      result |-> parse_index_flag(prompt, hk_index_file, hk_meta)]
    /\ UNCHANGED <<hk_index_file, hk_meta, hk_mtime, hk_clock, hk_listed>>

\* should_regenerate_index is called; the file listing may raise
HkShouldRegenerate ==
    /\ \E requested_size_k \in HkSizes, raised \in BOOLEAN :
          hk_last' = [fn |-> "should_regenerate_index", size |-> requested_size_k,
                      raised |-> raised,
                      result |-> should_regenerate_index(
                                    hk_index_file, hk_meta,
                                    calculate_files_hash(hk_mtime, Listed, raised),
                                    requested_size_k)]
    /\ UNCHANGED <<hk_index_file, hk_meta, hk_mtime, hk_clock, hk_listed>>

\* lines 173-257, a run that returns False: no indexer, a non-zero return
\* code, a timeout, no index file
HkGenerateFails ==
    /\ \E target_size_k \in HkSizes :
          hk_last' = [fn |-> "generate_index_at_size", size |-> target_size_k,
                      raised |-> FALSE, result |-> FALSE]
    /\ UNCHANGED <<hk_index_file, hk_meta, hk_mtime, hk_clock, hk_listed>>

\* lines 173-244, a run that returns True: the indexer writes the index
\* file (keeping the remembered size of the old one or not), line 228
\* hashes the project files, line 240 writes the index file again, at the
\* same modification time or at a later one.  Of the metadata the keys
\* that are read back are kept.
HkGenerate ==
    /\ hk_clock + 2 <= MaxClock
    /\ \E target_size_k \in HkSizes, is_clipboard_mode \in BOOLEAN,
          raised \in BOOLEAN, kept \in BOOLEAN, later \in {0, 1} :
          LET written == hk_clock + 1
              old == IF kept /\ "last_interactive_size_k" \in DOMAIN hk_meta
                     THEN [last_interactive_size_k |-> hk_meta["last_interactive_size_k"]]
                     ELSE <<>>
              files_hash == calculate_files_hash(
                               [hk_mtime EXCEPT ![IndexName] = written], Listed, raised)
              metadata_update ==
                  [target_size_k |-> target_size_k, files_hash |-> files_hash]
                  @@ (IF ~is_clipboard_mode
                      THEN [last_interactive_size_k |-> target_size_k] ELSE <<>>)
          IN  /\ hk_index_file' = "ok"
              /\ hk_meta' = metadata_update @@ old
              /\ hk_mtime' = [hk_mtime EXCEPT ![IndexName] = written + later]
              /\ hk_clock' = written + later
              /\ hk_last' = [fn |-> "generate_index_at_size", size |-> target_size_k,
                             raised |-> raised, result |-> TRUE]
    /\ UNCHANGED hk_listed

\* a project file is created or modified
HkEditFile ==
    /\ hk_clock + 1 <= MaxClock
    /\ hk_mtime' = [hk_mtime EXCEPT !["a.py"] = hk_clock + 1]
    /\ hk_clock' = hk_clock + 1
    /\ hk_last' = [fn |-> "edit"]
    /\ UNCHANGED <<hk_index_file, hk_meta, hk_listed>>

\* a project file is deleted
HkDeleteFile ==
    /\ hk_mtime["a.py"] # 0
    /\ hk_mtime' = [hk_mtime EXCEPT !["a.py"] = 0]
    /\ hk_last' = [fn |-> "delete"]
    /\ UNCHANGED <<hk_index_file, hk_meta, hk_clock, hk_listed>>

\* the index file is deleted
HkRemoveIndex ==
    /\ hk_index_file # "missing"
    /\ hk_index_file' = "missing" /\ hk_meta' = <<>>
    /\ hk_mtime' = [hk_mtime EXCEPT ![IndexName] = 0]
    /\ hk_last' = [fn |-> "delete"]
    /\ UNCHANGED <<hk_clock, hk_listed>>

\* the index file is overwritten with text that is no JSON
HkCorruptIndex ==
    /\ hk_clock + 1 <= MaxClock
    /\ hk_index_file' = "unreadable" /\ hk_meta' = <<>>
    /\ hk_mtime' = [hk_mtime EXCEPT ![IndexName] = hk_clock + 1]
    /\ hk_clock' = hk_clock + 1
    /\ hk_last' = [fn |-> "edit"]
    /\ UNCHANGED hk_listed

(***************************************************************************)
(* Specifications.                                                         *)
(***************************************************************************)
vars == <<cxVars, cgVars, pyVars, shVars, jsVars, rsVars, hkVars>>

ScannersIdle == CxIdle /\ CgIdle /\ PyIdle /\ ShIdle /\ JsIdle /\ RsIdle

AllIdle == ScannersIdle /\ HkIdle

scVars == <<cxVars, cgVars, pyVars, shVars, jsVars, rsVars>>

\* the index cache of the hook: any calls of generate_index_at_size and
\* should_regenerate_index while the project files change, in a project
\* that ignores PROJECT_INDEX.json or not
InitHook ==
    /\ ScannersIdle
    /\ hk_index_file = "missing" /\ hk_meta = <<>>
    /\ hk_mtime = [f \in HkFiles |-> IF f = IndexName THEN 0 ELSE 1]
    /\ hk_clock = 1
    /\ hk_listed \in BOOLEAN
    /\ hk_last = [fn |-> "none"]

NextHook ==
    \/ HkShouldRegenerate /\ UNCHANGED scVars
    \/ HkGenerate /\ UNCHANGED scVars
    \/ HkGenerateFails /\ UNCHANGED scVars
    \/ HkEditFile /\ UNCHANGED scVars
    \/ HkDeleteFile /\ UNCHANGED scVars
    \/ HkRemoveIndex /\ UNCHANGED scVars
    \/ HkCorruptIndex /\ UNCHANGED scVars

SpecHook == InitHook /\ [][NextHook]_vars

\* the sizes an index on disk may remember
HkRemembered == {0, 30, 150}

\* parse_index_flag, called once on any prompt with any index on disk
InitFlag ==
    /\ ScannersIdle
    /\ hk_index_file \in {"missing", "unreadable", "ok"}
    /\ hk_meta \in {<<>>} \cup {[last_interactive_size_k |-> n] : n \in HkRemembered}
    /\ hk_index_file # "ok" => hk_meta = <<>>
    /\ hk_mtime = [f \in HkFiles |-> 1]
    /\ hk_clock = 1
    /\ hk_listed = TRUE
    /\ hk_last = [fn |-> "none"]

NextFlag == HkParse /\ UNCHANGED scVars

SpecFlag == InitFlag /\ [][NextFlag]_vars

\* the call extractors, each called once on any body and known-symbol set
InitCalls == AllIdle

NextCalls ==
    \/ ExtractPython /\ UNCHANGED <<hkVars, cgVars, pyVars, shVars, jsVars, rsVars>>
    \/ ExtractJavascript /\ UNCHANGED <<hkVars, cgVars, pyVars, shVars, jsVars, rsVars>>
    \/ ExtractShell /\ UNCHANGED <<hkVars, cgVars, pyVars, shVars, jsVars, rsVars>>

SpecCalls == InitCalls /\ [][NextCalls]_vars

\* build_call_graph, called once on any functions and classes
InitGraph == AllIdle

NextGraph == BuildCallGraph /\ UNCHANGED <<hkVars, cxVars, pyVars, shVars, jsVars, rsVars>>

SpecGraph == InitGraph /\ [][NextGraph]_vars

\* build_call_graph, called once on functions and classes whose records
\* name the same callee
InitGraphOrder == AllIdle

NextGraphOrder ==
    BuildCallGraphOrder /\ UNCHANGED <<hkVars, cxVars, pyVars, shVars, jsVars, rsVars>>

SpecGraphOrder == InitGraphOrder /\ [][NextGraphOrder]_vars

\* extract_python_signatures, called once on any file
InitPy == AllIdle

NextPy ==
    \/ PyScan /\ UNCHANGED <<hkVars, cxVars, cgVars, shVars, jsVars, rsVars>>
    \/ PyStep /\ UNCHANGED <<hkVars, cxVars, cgVars, shVars, jsVars, rsVars>>
    \/ PyFinish /\ UNCHANGED <<hkVars, cxVars, cgVars, shVars, jsVars, rsVars>>

SpecPy == InitPy /\ [][NextPy]_vars

\* extract_python_signatures, called once on a file of classes, annotated
\* names and module-level assignments
InitPyScope == AllIdle

NextPyScope ==
    \/ PyScopeScan /\ UNCHANGED <<hkVars, cxVars, cgVars, shVars, jsVars, rsVars>>
    \/ PyStep /\ UNCHANGED <<hkVars, cxVars, cgVars, shVars, jsVars, rsVars>>
    \/ PyFinish /\ UNCHANGED <<hkVars, cxVars, cgVars, shVars, jsVars, rsVars>>

SpecPyScope == InitPyScope /\ [][NextPyScope]_vars

\* extract_shell_signatures, called once on any script
InitSh == AllIdle

NextSh ==
    \/ ShScan /\ UNCHANGED <<hkVars, cxVars, cgVars, pyVars, jsVars, rsVars>>
    \/ ShStep /\ UNCHANGED <<hkVars, cxVars, cgVars, pyVars, jsVars, rsVars>>
    \/ ShFinish /\ UNCHANGED <<hkVars, cxVars, cgVars, pyVars, jsVars, rsVars>>

SpecSh == InitSh /\ [][NextSh]_vars

\* extract_shell_signatures, called once on a script with an indented
\* function declaration
InitShNested == AllIdle

NextShNested ==
    \/ ShNestedScan /\ UNCHANGED <<hkVars, cxVars, cgVars, pyVars, jsVars, rsVars>>
    \/ ShStep /\ UNCHANGED <<hkVars, cxVars, cgVars, pyVars, jsVars, rsVars>>
    \/ ShFinish /\ UNCHANGED <<hkVars, cxVars, cgVars, pyVars, jsVars, rsVars>>

SpecShNested == InitShNested /\ [][NextShNested]_vars

\* extract_javascript_signatures, called once on any file
InitJs == AllIdle

NextJs ==
    \/ JsScan /\ UNCHANGED <<hkVars, cxVars, cgVars, pyVars, shVars, rsVars>>
    \/ JsScanImports /\ UNCHANGED <<hkVars, cxVars, cgVars, pyVars, shVars, rsVars>>
    \/ JsScanEnums /\ UNCHANGED <<hkVars, cxVars, cgVars, pyVars, shVars, rsVars>>
    \/ JsScanConstants /\ UNCHANGED <<hkVars, cxVars, cgVars, pyVars, shVars, rsVars>>
    \/ JsScanVariables /\ UNCHANGED <<hkVars, cxVars, cgVars, pyVars, shVars, rsVars>>
    \/ JsScanClasses /\ UNCHANGED <<hkVars, cxVars, cgVars, pyVars, shVars, rsVars>>
    \/ JsScanMembers /\ UNCHANGED <<hkVars, cxVars, cgVars, pyVars, shVars, rsVars>>
    \/ JsScanFunctions /\ UNCHANGED <<hkVars, cxVars, cgVars, pyVars, shVars, rsVars>>
    \/ JsFinish /\ UNCHANGED <<hkVars, cxVars, cgVars, pyVars, shVars, rsVars>>

SpecJs == InitJs /\ [][NextJs]_vars

\* extract_javascript_signatures, called once on a file that declares enums
InitJsEnum == AllIdle

NextJsEnum ==
    \/ JsEnumScan /\ UNCHANGED <<hkVars, cxVars, cgVars, pyVars, shVars, rsVars>>
    \/ JsScanImports /\ UNCHANGED <<hkVars, cxVars, cgVars, pyVars, shVars, rsVars>>
    \/ JsScanEnums /\ UNCHANGED <<hkVars, cxVars, cgVars, pyVars, shVars, rsVars>>
    \/ JsScanConstants /\ UNCHANGED <<hkVars, cxVars, cgVars, pyVars, shVars, rsVars>>
    \/ JsScanVariables /\ UNCHANGED <<hkVars, cxVars, cgVars, pyVars, shVars, rsVars>>
    \/ JsScanClasses /\ UNCHANGED <<hkVars, cxVars, cgVars, pyVars, shVars, rsVars>>
    \/ JsScanMembers /\ UNCHANGED <<hkVars, cxVars, cgVars, pyVars, shVars, rsVars>>
    \/ JsScanFunctions /\ UNCHANGED <<hkVars, cxVars, cgVars, pyVars, shVars, rsVars>>
    \/ JsFinish /\ UNCHANGED <<hkVars, cxVars, cgVars, pyVars, shVars, rsVars>>

SpecJsEnum == InitJsEnum /\ [][NextJsEnum]_vars

\* extract_javascript_signatures, called once on a file of class and
\* function declarations
InitJsClass == AllIdle

NextJsClass ==
    \/ JsClassScan /\ UNCHANGED <<hkVars, cxVars, cgVars, pyVars, shVars, rsVars>>
    \/ JsScanImports /\ UNCHANGED <<hkVars, cxVars, cgVars, pyVars, shVars, rsVars>>
    \/ JsScanEnums /\ UNCHANGED <<hkVars, cxVars, cgVars, pyVars, shVars, rsVars>>
    \/ JsScanConstants /\ UNCHANGED <<hkVars, cxVars, cgVars, pyVars, shVars, rsVars>>
    \/ JsScanVariables /\ UNCHANGED <<hkVars, cxVars, cgVars, pyVars, shVars, rsVars>>
    \/ JsScanClasses /\ UNCHANGED <<hkVars, cxVars, cgVars, pyVars, shVars, rsVars>>
    \/ JsScanMembers /\ UNCHANGED <<hkVars, cxVars, cgVars, pyVars, shVars, rsVars>>
    \/ JsScanFunctions /\ UNCHANGED <<hkVars, cxVars, cgVars, pyVars, shVars, rsVars>>
    \/ JsFinish /\ UNCHANGED <<hkVars, cxVars, cgVars, pyVars, shVars, rsVars>>

SpecJsClass == InitJsClass /\ [][NextJsClass]_vars

\* extract_javascript_signatures, called once on a file of classes whose
\* methods have their body on the declaration line
InitJsMethod == AllIdle

NextJsMethod ==
    \/ JsMethodScan /\ UNCHANGED <<hkVars, cxVars, cgVars, pyVars, shVars, rsVars>>
    \/ JsScanImports /\ UNCHANGED <<hkVars, cxVars, cgVars, pyVars, shVars, rsVars>>
    \/ JsScanEnums /\ UNCHANGED <<hkVars, cxVars, cgVars, pyVars, shVars, rsVars>>
    \/ JsScanConstants /\ UNCHANGED <<hkVars, cxVars, cgVars, pyVars, shVars, rsVars>>
    \/ JsScanVariables /\ UNCHANGED <<hkVars, cxVars, cgVars, pyVars, shVars, rsVars>>
    \/ JsScanClasses /\ UNCHANGED <<hkVars, cxVars, cgVars, pyVars, shVars, rsVars>>
    \/ JsScanMembers /\ UNCHANGED <<hkVars, cxVars, cgVars, pyVars, shVars, rsVars>>
    \/ JsScanFunctions /\ UNCHANGED <<hkVars, cxVars, cgVars, pyVars, shVars, rsVars>>
    \/ JsFinish /\ UNCHANGED <<hkVars, cxVars, cgVars, pyVars, shVars, rsVars>>

SpecJsMethod == InitJsMethod /\ [][NextJsMethod]_vars

\* one of the three scanners, called once on any text
InitScan == AllIdle

NextScan ==
    \/ sh_pc = "idle" /\ js_pc = "idle" /\ NextPy
    \/ py_pc = "idle" /\ js_pc = "idle" /\ NextSh
    \/ py_pc = "idle" /\ sh_pc = "idle" /\ NextJs

SpecScan == InitScan /\ [][NextScan]_vars

\* one of the three scanners, called once on a text of declarations that
\* do not end (a header without its "):" or with a terminator that is
\* none, braces that are not closed, closed twice or never opened); a call
\* that can take a step does take one, the code of a scanner running on
\* until it returns
PyHaltFiles ==
    SeqUpTo({PyLine("defopen", 0, "f", ""),
             PyLine("ifstmt", 4, "", "baz"),
             PyLine("def", 0, "baz", "")}, MaxLines)

ShHaltFiles ==
    SeqUpTo({ShLine("func1", 0, "greet", "", <<>>, ""),
             ShLine("open", 0, "", "{", <<>>, ""),
             ShLine("close", 0, "", "}", <<>>, "")}, MaxLines)

JsHaltFiles ==
    {JsJoinLines(ls) :
        ls \in SeqUpTo({<<"class", " ", "A", " ", "{">>,
                        <<" ", "m", "(", ")", " ", "{", " ", "f", "(", ")", ";", " ", "}">>,
                        <<"function", " ", "f", "(", ")", " ", "{">>}, MaxLines)}

PyHaltScan == py_pc = "idle" /\ \E content \in PyHaltFiles : PyStart(content)

ShHaltScan == sh_pc = "idle" /\ \E content \in ShHaltFiles : ShStart(content)

JsHaltScan == js_pc = "idle" /\ \E content \in JsHaltFiles : JsStart(content)

InitHalt == AllIdle

NextHalt ==
    \/ sh_pc = "idle" /\ js_pc = "idle"
          /\ (PyHaltScan \/ PyStep \/ PyFinish)
          /\ UNCHANGED <<hkVars, cxVars, cgVars, shVars, jsVars, rsVars>>
    \/ py_pc = "idle" /\ js_pc = "idle"
          /\ (ShHaltScan \/ ShStep \/ ShFinish)
          /\ UNCHANGED <<hkVars, cxVars, cgVars, pyVars, jsVars, rsVars>>
    \/ py_pc = "idle" /\ sh_pc = "idle"
          /\ (\/ JsHaltScan \/ JsScanImports \/ JsScanEnums \/ JsScanConstants
              \/ JsScanVariables \/ JsScanClasses \/ JsScanMembers
              \/ JsScanFunctions \/ JsFinish)
          /\ UNCHANGED <<hkVars, cxVars, cgVars, pyVars, shVars, rsVars>>

\* a call is running: a step of NextHalt other than a call is enabled
Running ==
    py_pc = "scan" \/ sh_pc = "scan" \/ js_pc \notin {"idle", "done"}

\* weak fairness of the steps of the running call, the enabling condition
\* written out as Running: a call that runs keeps taking steps (nothing
\* says that a call is ever made)
RunsOn == []<>(~Running) \/ []<><<NextHalt>>_vars

SpecHalt == InitHalt /\ [][NextHalt]_vars /\ RunsOn

\* calls of the three scanners that follow one another
InitRescan == AllIdle

NextRescan ==
    \/ PyCall /\ UNCHANGED <<hkVars, cxVars, cgVars>>
    \/ PyStep /\ UNCHANGED <<hkVars, cxVars, cgVars, shVars, jsVars, rsVars>>
    \/ PyReturn /\ UNCHANGED <<hkVars, cxVars, cgVars, shVars, jsVars>>
    \/ ShCall /\ UNCHANGED <<hkVars, cxVars, cgVars>>
    \/ ShStep /\ UNCHANGED <<hkVars, cxVars, cgVars, pyVars, jsVars, rsVars>>
    \/ ShReturn /\ UNCHANGED <<hkVars, cxVars, cgVars, pyVars, jsVars>>
    \/ JsCall /\ UNCHANGED <<hkVars, cxVars, cgVars>>
    \/ JsScanImports /\ UNCHANGED <<hkVars, cxVars, cgVars, pyVars, shVars, rsVars>>
    \/ JsScanEnums /\ UNCHANGED <<hkVars, cxVars, cgVars, pyVars, shVars, rsVars>>
    \/ JsScanConstants /\ UNCHANGED <<hkVars, cxVars, cgVars, pyVars, shVars, rsVars>>
    \/ JsScanVariables /\ UNCHANGED <<hkVars, cxVars, cgVars, pyVars, shVars, rsVars>>
    \/ JsScanClasses /\ UNCHANGED <<hkVars, cxVars, cgVars, pyVars, shVars, rsVars>>
    \/ JsScanMembers /\ UNCHANGED <<hkVars, cxVars, cgVars, pyVars, shVars, rsVars>>
    \/ JsScanFunctions /\ UNCHANGED <<hkVars, cxVars, cgVars, pyVars, shVars, rsVars>>
    \/ JsReturn /\ UNCHANGED <<hkVars, cxVars, cgVars, pyVars, shVars>>

SpecRescan == InitRescan /\ [][NextRescan]_vars

(***************************************************************************)
(* Claims about build_call_graph (under SpecGraph).                       *)
(***************************************************************************)
\* every name a caller or a callee can have in the graph
GraphNames ==
    GraphFunctionNames \cup GraphCallees
    \cup {c \o "." \o m : c \in GraphClassNames, m \in GraphMethodNames}

Calls(x, y) == DictHas(calls_map, x) /\ y \in Range(DictGet(calls_map, x))

CalledBy(y, x) == DictHas(called_by_map, y) /\ x \in Range(DictGet(called_by_map, y))

\* C1: in the two maps build_call_graph returns, y is in calls_map[x] if
\* and only if x is in called_by_map[y], for every pair of names x, y.
C1_AdjacencySymmetry ==
    graph_built => \A x, y \in GraphNames : Calls(x, y) <=> CalledBy(y, x)

\* C1 witness: a graph in which one callee has two callers, one of them a
\* method, and one caller has two callees, one of them itself.
C1_Witness ==
    /\ graph_built
    /\ Calls("a", "b") /\ Calls("A.m", "b") /\ Calls("a", "a")
    /\ CalledBy("b", "a") /\ CalledBy("b", "A.m")

\* the (key, calls) pairs the records carry: module functions under their
\* bare name, methods under Class.method
RecordCalls ==
    {<<functions[k][1], functions[k][2]["calls"]>> :
        k \in {j \in 1..Len(functions) :
                 IsDict(functions[j][2]) /\ "calls" \in DOMAIN functions[j][2]}}
    \cup
    UNION {LET ms == classes[c][2]["methods"]
           IN  {<<classes[c][1] \o "." \o ms[k][1], ms[k][2]["calls"]>> :
                  k \in {j \in 1..Len(ms) :
                           IsDict(ms[j][2]) /\ "calls" \in DOMAIN ms[j][2]}} :
           c \in {j \in 1..Len(classes) : "methods" \in DOMAIN classes[j][2]}}

\* C2: the keys of calls_map are exactly the functions (bare name) and
\* methods (Class.method) whose record carries calls, each mapped to that
\* calls list unchanged; functions a and b of which only a has
\* calls == ['b'] give calls_map == {'a': ['b']}, called_by_map == {'b': ['a']}.
C2_NoCallDetection ==
    graph_built =>
        /\ Range(calls_map) = RecordCalls
        /\ ( /\ Range(functions) =
                  {<<"a", [line |-> 1, calls |-> <<"b">>, signature |-> "()"]>>,
                   <<"b", [line |-> 1, signature |-> "()"]>>}
             /\ classes = <<>> )
           => /\ calls_map = << <<"a", <<"b">> >> >>
              /\ called_by_map = << <<"b", <<"a">> >> >>

\* C2 witness: the scenario of the two functions a and b, and a class
\* whose method carries calls.
C2_Witness ==
    /\ graph_built
    /\ \/ /\ functions = << <<"a", [line |-> 1, calls |-> <<"b">>, signature |-> "()"]>>,
                            <<"b", [line |-> 1, signature |-> "()"]>> >>
          /\ classes = <<>>
          /\ calls_map = << <<"a", <<"b">> >> >>
       \/ /\ functions = <<>>
          /\ DictHas(calls_map, "A.m")

(***************************************************************************)
(* Claims about the call extractors (under SpecCalls).                    *)
(***************************************************************************)
\* C3: no name extract_function_calls_python or
\* extract_function_calls_javascript returns is in that function's
\* exclude_keywords, also when it is reached through a receiver call
\* (obj.name() and is in the known-symbol set.  (The code's receiver
\* pattern applies no exclusion list, so this fails.)
C3_NoExcludedName ==
    /\ lang = "python" => \A c \in Range(calls) : c \notin exclude_keywords_python
    /\ lang = "javascript" => \A c \in Range(calls) : c \notin exclude_keywords_javascript

\* C4: the list each of the three extractors returns is strictly ascending
\* (sorted, no duplicates) and every element is in the known-symbol set.
C4_SortedKnownSubset ==
    lang # "none" =>
        /\ \A k \in 1..(Len(calls) - 1) : StrLess(calls[k], calls[k + 1])
        /\ Range(calls) \subseteq all_functions

\* C4 witness: a body that invokes b before a, both known, so that the
\* order of the result is not the order of appearance.
C4_Witness ==
    /\ lang \in {"python", "javascript", "shell"}
    /\ Len(body) >= 3
    /\ body[1] = "b"
    /\ calls = <<"a", "b">>

(***************************************************************************)
(* Claims about extract_python_signatures (under SpecPy).                 *)
(***************************************************************************)
\* the keys of result['enums'] and of result['classes']
EnumKeys(res) == Range(DictKeys(Get(res, "enums", <<>>)))

ClassKeys(res) == Range(DictKeys(Get(res, "classes", <<>>)))

\* no name is a key of both tables, no class left has type 'enum', every
\* enums entry has exactly the keys 'values' and 'doc'
EnumsApart(res) ==
    /\ EnumKeys(res) \cap ClassKeys(res) = {}
    /\ \A k \in 1..Len(res.classes) : Get(res.classes[k][2], "type", "") # "enum"
    /\ \A k \in 1..Len(Get(res, "enums", <<>>)) :
          DOMAIN res.enums[k][2] = {"values", "doc"}

\* C5 as stated: a top-level class was classified type 'enum' during the
\* scan if and only if its name is a key of result['enums']; no name is a
\* key of both classes and enums, no class left has type 'enum', and every
\* enums entry has exactly the keys 'values' and 'doc'.
C5_ClassifiedIffMigrated ==
    py_pc = "done" =>
        /\ enum_classified = EnumKeys(result)
        /\ EnumsApart(result)

\* C5 amended: when the scan ends, the keys of result['enums'] are exactly
\* the names whose class record at that moment (that of the last top-level
\* declaration of the name) has type 'enum'; no name is a key of both
\* classes and enums, no class left has type 'enum', and every enums entry
\* has exactly the keys 'values' and 'doc'.
C5_EnumMigration ==
    [][(py_pc = "scan" /\ py_pc' = "done") =>
          /\ EnumKeys(result') =
                {result.classes[k][1] :
                    k \in {j \in 1..Len(result.classes) :
                             Get(result.classes[j][2], "type", "") = "enum"}}
          /\ EnumsApart(result')]_vars

\* C5 witness: Foo is declared an exception, then again an enum with the
\* value RED; the result holds it in enums alone.
C5_Witness ==
    /\ py_pc = "done"
    /\ lines = <<PyLine("class", 0, "Foo", <<"Exception">>),
                 PyLine("class", 0, "Foo", <<"Enum">>),
                 PyLine("const", 4, "RED", "1")>>
    /\ enum_classified = {"Foo"}
    /\ result.enums = << <<"Foo", [values |-> <<"RED">>, doc |-> ""]>> >>
    /\ result.classes = <<>>

\* C9: a file that defines the module function baz and the class
\* Foo(Exception) whose only method is `def bar(self): return baz()` yields
\* classes['Foo'].type == 'exception' and
\* classes['Foo'].methods['bar'].calls == ['baz'].
C9_InlineMethodCall ==
    ( /\ py_pc = "done"
      /\ lines = <<PyLine("def", 0, "baz", ""),
                   PyLine("class", 0, "Foo", <<"Exception">>),
                   PyLine("def", 4, "bar", "baz")>> )
    => /\ DictHas(result.classes, "Foo")
       /\ Get(DictGet(result.classes, "Foo"), "type", "") = "exception"
       /\ DictHas(DictGet(result.classes, "Foo").methods, "bar")
       /\ Get(DictGet(DictGet(result.classes, "Foo").methods, "bar"), "calls", <<>>)
             = <<"baz">>

(***************************************************************************)
(* Claims about extract_shell_signatures (under SpecSh).                  *)
(***************************************************************************)
\* the signature of an entry of result['functions'], a record or a str
SignatureOf(entry) == IF IsDict(entry) THEN entry.signature ELSE entry.str

\* C10: the script `greet() { echo "hi $1"; }` yields a functions['greet']
\* record whose signature is '($1)'; more generally a function whose body
\* references positional parameters up to $n within the scan window has a
\* signature that lists the parameters 1..n, as greet has when its body
\* stands on the lines after `greet() {`.
C10_GreetSignature ==
    /\ ( /\ sh_pc = "done"
         /\ sh_lines = <<ShLine("func1", 0, "greet", "{}", <<1>>, "echo")>> )
       => /\ DictHas(sh_result.functions, "greet")
          /\ IsDict(DictGet(sh_result.functions, "greet"))
          /\ DictGet(sh_result.functions, "greet").signature = "($1)"
    /\ ( /\ sh_pc = "done"
         /\ sh_lines = <<ShLine("func1", 0, "greet", "{", <<>>, ""),
                         ShLine("cmd", 2, "echo", "", <<3, 1>>, ""),
                         ShLine("close", 0, "", "}", <<>>, "")>> )
       => /\ DictHas(sh_result.functions, "greet")
          /\ SignatureOf(DictGet(sh_result.functions, "greet")) = "($1 ${2} ${3})"

(***************************************************************************)
(* Claims about the three scanners (under SpecScan and SpecRescan).       *)
(***************************************************************************)
\* no key of a returned result maps to an empty container
NoEmptyValue(res) == \A key \in DOMAIN res : res[key] # <<>>

\* C6: the result each of the three scanners returns has no key whose value
\* is an empty container: every top-level key present (functions, classes
\* and call_graph among them) maps to a non-empty value.
C6_NoEmptyContainer ==
    /\ py_pc = "done" => NoEmptyValue(result)
    /\ js_pc = "done" => NoEmptyValue(js_result)
    /\ sh_pc = "done" => NoEmptyValue(sh_result)

\* the line values of a dict of function or method records
LinesOf(infos) ==
    {infos[k][2].line : k \in {j \in 1..Len(infos) :
                                  IsDict(infos[j][2]) /\ "line" \in DOMAIN infos[j][2]}}

\* every line value of a result: of its functions, its classes and their
\* methods
LineValues(res) ==
    LinesOf(Get(res, "functions", <<>>))
    \cup LinesOf(Get(res, "classes", <<>>))
    \cup UNION {LinesOf(res.classes[k][2].methods) : k \in 1..Len(Get(res, "classes", <<>>))}

\* the number of lines of a JavaScript file
JsLineCount == pos_to_line(js_content, Len(js_content) + 1)

\* C7: every line value extract_python_signatures and
\* extract_javascript_signatures emit (on classes, methods and module
\* functions) is an integer L with 1 <= L <= number of lines of the input.
C7_LineInRange ==
    /\ LineValues(result) \subseteq 1..Len(lines)
    /\ LineValues(js_result) \subseteq 1..JsLineCount

\* C7 witness: a Python file whose last line declares a method of the
\* class declared on the line before.
C7_Witness ==
    /\ py_pc = "done"
    /\ Len(lines) >= 3
    /\ DictHas(result.classes, "Foo")
    /\ DictGet(result.classes, "Foo").line = Len(lines) - 1
    /\ DictHas(DictGet(result.classes, "Foo").methods, "bar")
    /\ DictGet(DictGet(result.classes, "Foo").methods, "bar").line = Len(lines)

\* C8: a scanner called again on the text of an earlier call, whatever the
\* calls in between, returns the result the earlier call returned, equal
\* in the order of every list and mapping.
C8_SameTextSameResult ==
    first_scan # <<>> =>
        /\ (py_pc = "done" /\ first_scan.scanner = "python" /\ first_scan.text = lines)
              => result = first_scan.result
        /\ (sh_pc = "done" /\ first_scan.scanner = "shell" /\ first_scan.text = sh_lines)
              => sh_result = first_scan.result
        /\ (js_pc = "done" /\ first_scan.scanner = "javascript"
              /\ first_scan.text = js_content)
              => js_result = first_scan.result

\* C8 witness: the third call scans the script of the first one, a
\* function that calls itself, after another call in between.
C8_Witness ==
    /\ calls_made = 3
    /\ sh_pc = "done"
    /\ first_scan # <<>>
    /\ first_scan.scanner = "shell"
    /\ first_scan.text = sh_lines
    /\ sh_lines = <<ShLine("func2", 0, "f", "{", <<>>, ""),
                    ShLine("cmd", 2, "f", "{}", <<>>, "")>>
    /\ sh_result.functions = << <<"f", [calls |-> <<"f">>, signature |-> "()"]>> >>

(***************************************************************************)
(* Claims about the enums of extract_javascript_signatures (under         *)
(* SpecJsEnum).                                                            *)
(***************************************************************************)
\* the member lines of the enum files, and the member each one declares
JsMemberLines == {l \in JsEnumAlphabet : Len(l) > 2 /\ l[1] = " " /\ l[3] = " "}

MemberName(l) == l[2]

\* the declarations  enum E { members }  written one member a line, every
\* member but the last followed by a comma (the last one may be)
JsEnumDeclarations ==
    {ls \in SeqUpTo(JsEnumAlphabet, MaxLines) :
        /\ Len(ls) >= 2
        /\ ls[1] = <<"enum", " ", "E", " ", "{">>
        /\ ls[Len(ls)] = <<"}">>
        /\ \A k \in 2..(Len(ls) - 1) :
              /\ ls[k] \in JsMemberLines
              /\ k < Len(ls) - 1 => ls[k][Len(ls[k])] = ","}

\* C11: for an enum declaration  enum N { ... }  enums[N].values is the
\* ordered list of the member names and nothing else: the declaration
\* `enum Color { Red, Green, Blue }` yields ['Red', 'Green', 'Blue'], and a
\* member whose initializer is a string literal with spaces or commas
\* contributes its name only.
C11_EnumMemberNames ==
    js_pc = "done" =>
        /\ js_content = <<"enum", " ", "Color", " ", "{", " ", "Red", ",", " ",
                          "Green", ",", " ", "Blue", " ", "}">>
             => /\ "enums" \in DOMAIN js_result
                /\ DictHas(js_result.enums, "Color")
                /\ DictGet(js_result.enums, "Color").values = <<"Red", "Green", "Blue">>
        /\ \A ls \in JsEnumDeclarations :
              js_content = JsJoinLines(ls)
                 => /\ "enums" \in DOMAIN js_result
                    /\ DictHas(js_result.enums, "E")
                    /\ DictGet(js_result.enums, "E").values
                          = [k \in 1..(Len(ls) - 2) |-> MemberName(ls[k + 1])]

(***************************************************************************)
(* Claims about the imports of the Python and JavaScript scanners (under  *)
(* SpecScan).                                                              *)
(***************************************************************************)
\* the imports list of a returned result, empty when the key was deleted
ImportsIn(res) == IF "imports" \in DOMAIN res THEN res.imports ELSE <<>>

NoDuplicates(s) == \A a, b \in 1..Len(s) : a # b => s[a] # s[b]

\* the elements of s in the order of their first appearance
RECURSIVE FirstAppearances(_)
FirstAppearances(s) ==
    IF s = <<>> THEN <<>>
    ELSE LET rest == FirstAppearances(SubSeq(s, 1, Len(s) - 1))
         IN  IF s[Len(s)] \in Range(rest) THEN rest ELSE Append(rest, s[Len(s)])

\* C12: the imports list returned by extract_python_signatures and by
\* extract_javascript_signatures has no duplicate entry and lists the
\* modules in the order of their first appearance, also when several
\* statements import the same module.
C12_ImportsDeduplicated ==
    /\ py_pc = "done" =>
          /\ NoDuplicates(ImportsIn(result))
          /\ ImportsIn(result) = FirstAppearances(ImportsOf(lines, Len(lines)))
    /\ js_pc = "done" =>
          /\ NoDuplicates(ImportsIn(js_result))
          /\ ImportsIn(js_result) = FirstAppearances(JsImports(js_content))

(***************************************************************************)
(* Claims about the line scan of extract_python_signatures (under SpecPy).*)
(***************************************************************************)
\* the names of the classes declared at indentation 0 on the first n lines
TopLevelClassNames(ls, n) ==
    {ls[k].name : k \in {j \in 1..n : class_match(ls[j]) /\ ls[j].ind = 0}}

\* the number of lines the scan has gone past
LinesScanned == IF i < Len(lines) THEN i ELSE Len(lines)

\* C13: at every step of the line scan and in the returned result, every
\* key of result['classes'] and of result['enums'] is the name of a class
\* declared at indentation 0 (on a line already scanned); a class declared
\* deeper never becomes a key; during the scan current_class is None or a
\* key of result['classes'].
C13_TopLevelClassesOnly ==
    py_pc \in {"scan", "done"} =>
        /\ ClassKeys(result) \cup EnumKeys(result)
              \subseteq TopLevelClassNames(lines, LinesScanned)
        /\ "Inner" \notin ClassKeys(result) \cup EnumKeys(result)
        /\ py_pc = "scan" => current_class \in {None} \cup ClassKeys(result)

\* C13 witness: a class nested in Foo was scanned, then a method of Foo;
\* the result holds Foo and its method, and no entry for the nested class.
C13_Witness ==
    /\ py_pc = "done"
    /\ lines = <<PyLine("class", 0, "Foo", <<"Exception">>),
                 PyLine("class", 4, "Inner", <<>>),
                 PyLine("def", 4, "bar", "")>>
    /\ ClassKeys(result) = {"Foo"}
    /\ DictHas(DictGet(result.classes, "Foo").methods, "bar")
    /\ class_stack = << <<"Foo", 0>>, <<"Inner", 4>> >>

MethodsOfClass(res, k) == res.classes[k][2].methods

\* C15: a class that declares `constructor(...) {` has the key '__init__'
\* in its methods mapping and not the key 'constructor'; no methods
\* mapping has the key 'constructor'.
C15_ConstructorNormalized ==
    js_pc = "done" =>
        /\ \A k \in 1..Len(js_result.classes) :
              ~DictHas(MethodsOfClass(js_result, k), "constructor")
        /\ js_content = JsJoinLines(<< <<"class", " ", "A", " ", "{">>,
                                       <<" ", "constructor", "(", ")", " ", "{", " ", "}">>,
                                       <<"}">> >>)
              => /\ Len(js_result.classes) = 1
                 /\ DictHas(MethodsOfClass(js_result, 1), "__init__")

(***************************************************************************)
(* Claims about the functions of extract_javascript_signatures (under     *)
(* SpecJsClass).                                                           *)
(***************************************************************************)
\* the class declarations of a text with a body that is closed: their
\* start and the position of the closing brace
JsClassSpans(content) ==
    {<<k, ClassClose(content, ClassMatchEnd(content, ClassAt(content, k)), 0, FALSE)>> :
        k \in {c \in 1..Len(content) :
                  /\ ClassAt(content, c) > 0
                  /\ ClassClose(content, ClassMatchEnd(content, ClassAt(content, c)),
                                0, FALSE) > 0}}

\* the starts of the function and arrow-function declarations named name
JsDeclarationStarts(content, name) ==
    {p \in 1..Len(content) :
        \E n \in 1..2 : /\ FuncPatternAt(n, content, p).end > 0
                         /\ FuncPatternAt(n, content, p).name = name}

\* C16: no function or arrow-function declaration that starts inside the
\* brace-delimited body of a class declared in the file is emitted in
\* result['functions'], also when two classes of the file have the same
\* name: every name emitted is declared somewhere outside every class.
C16_NoClassMemberAsFunction ==
    js_pc = "done" =>
        \A f \in 1..Len(js_result.functions) :
            \E p \in JsDeclarationStarts(js_content, js_result.functions[f][1]) :
                \A span \in JsClassSpans(js_content) : ~(span[1] <= p /\ p <= span[2])

(***************************************************************************)
(* Claims about the type of a class in the Python and the JavaScript      *)
(* scanner (under SpecScan).                                               *)
(***************************************************************************)
\* the base names of the inputs that contain 'enum' in lower case, and
\* those that contain 'exception' or 'error'
NamesWithEnum == {"Enum", "IntEnum"}

NamesWithException == {"Exception", "ValueError", "HttpException", "Error"}

\* the type the bases of a class call for, "" for none
TypeFor(bases) ==
    IF Range(bases) \cap NamesWithEnum # {} THEN "enum"
    ELSE IF Range(bases) \cap NamesWithException # {} THEN "exception"
    ELSE ""

\* the bases recorded for a class: inherits (Python) or extends (JavaScript)
BasesOf(class_info) ==
    IF "inherits" \in DOMAIN class_info THEN class_info.inherits
    ELSE IF "extends" \in DOMAIN class_info THEN <<class_info.extends>>
    ELSE <<>>

\* C17: in the Python and in the JavaScript scanner a class has type
\* 'enum' when a base name contains 'enum' in any case, else type
\* 'exception' when a base name contains 'exception' or 'error', else no
\* type; a JavaScript class extending HttpException has type 'exception'.
C17_TypeFromBases ==
    /\ py_pc = "done" =>
          \A k \in 1..Len(result.classes) :
              Get(result.classes[k][2], "type", "") = TypeFor(BasesOf(result.classes[k][2]))
    /\ js_pc = "done" =>
          \A k \in 1..Len(js_result.classes) :
              Get(js_result.classes[k][2], "type", "")
                  = TypeFor(BasesOf(js_result.classes[k][2]))

(***************************************************************************)
(* Claims about the function records of extract_python_signatures (under  *)
(* SpecPy).                                                                *)
(***************************************************************************)
\* the function and method records of a result, each with its name
PyRecords(res) ==
    {<<res.functions[k][1], res.functions[k][2]>> : k \in 1..Len(res.functions)}
    \cup UNION {{<<res.classes[c][2].methods[m][1], res.classes[c][2].methods[m][2]>> :
                    m \in 1..Len(res.classes[c][2].methods)} :
                c \in 1..Len(res.classes)}

\* C18: the line recorded for an emitted function or method is the 1-based
\* number of the line that holds its `def`, also when the signature runs
\* over several lines.
C18_LineOfDef ==
    py_pc = "done" =>
        \A r \in PyRecords(result) :
            /\ r[2].line \in 1..Len(lines)
            /\ func_start_match(lines[r[2].line])
            /\ lines[r[2].line].name = r[1]

\* no line from line k (1-based) to the end of the text holds a ")" with a
\* ":" after it
Unterminated(ls, k) == \A j \in k..Len(ls) : ~HasTerminator(ls[j])

\* C19: a def whose header reaches no line with ")" followed by ":" before
\* the end of the text is emitted nowhere in the result: the step that
\* meets it leaves the result as it was, with every declaration recorded
\* so far, and moves the scan to the line after the def line; every record
\* of the returned result belongs to a def whose header does end.
C19_UnterminatedDefDropped ==
    /\ [][( /\ py_pc = "scan" /\ py_pc' = "scan"
             /\ i < Len(lines)
             /\ func_start_match(lines[i + 1])
             /\ Unterminated(lines, i + 1) )
           => (i' = i + 1 /\ result' = result)]_vars
    /\ [](py_pc = "done" =>
            \A r \in PyRecords(result) :
                \E k \in 1..Len(lines) :
                    /\ func_start_match(lines[k])
                    /\ lines[k].name = r[1]
                    /\ ~Unterminated(lines, k))

\* C19 witness: the def on the second line never ends; the scan went on to
\* the third line and returned the function recorded before it, unchanged.
C19_Witness ==
    /\ py_pc = "done"
    /\ lines = <<PyLine("def", 0, "baz", ""),
                 PyLine("defopen", 0, "f", ""),
                 PyLine("stmt", 8, "", "baz")>>
    /\ Unterminated(lines, 2)
    /\ DictKeys(result.functions) = <<"baz">>
    /\ DictGet(result.functions, "baz").line = 1

\* the names of the decorator lines that stand immediately above line n
\* (1-based), in order
RECURSIVE DecoratorsAbove(_, _)
DecoratorsAbove(ls, n) ==
    IF n > 1 /\ decorator_match(ls[n - 1])
    THEN Append(DecoratorsAbove(ls, n - 1), ls[n - 1].name)
    ELSE <<>>

\* C20: the decorators of an emitted class, function or method are the
\* decorator lines immediately above its declaration, in order, and the
\* pending_decorators buffer is empty once a declaration line (a class or a
\* def, emitted or skipped) has been processed, so that a decorator above
\* a skipped declaration is never attached to a later one.
C20_DecoratorsAttachOnce ==
    /\ [][( /\ py_pc = "scan" /\ py_pc' = "scan"
             /\ i < Len(lines)
             /\ (class_match(lines[i + 1]) \/ func_start_match(lines[i + 1])) )
           => pending_decorators' = <<>>]_vars
    /\ [](py_pc = "done" =>
            /\ \A r \in PyRecords(result) :
                  (lines[r[2].line].k = "def" /\ lines[r[2].line].name = r[1])
                     => Get(r[2], "decorators", <<>>) = DecoratorsAbove(lines, r[2].line)
            /\ \A c \in 1..Len(result.classes) :
                  Get(result.classes[c][2], "decorators", <<>>)
                      = DecoratorsAbove(lines, result.classes[c][2].line))

(***************************************************************************)
(* Claims about function bodies, class scope and known symbols.           *)
(***************************************************************************)
\* the 1-based line that closes the brace opened on the declaration line:
\* the first line from j on where the depth returns to 0, 0 when the brace
\* is never closed
RECURSIVE ClosingLine(_, _, _)
ClosingLine(ls, j, depth) ==
    IF j > Len(ls) THEN 0
    ELSE LET now == depth + OpenCount(ls[j]) - CloseCount(ls[j])
         IN  IF now <= 0 THEN j ELSE ClosingLine(ls, j + 1, now)

\* the names of the calls an entry of result['functions'] lists
CallsOfEntry(entry) == IF IsDict(entry) THEN Range(Get(entry, "calls", <<>>)) ELSE {}

\* C21: for a shell function declared as `name() {` or `function name {`
\* with the opening brace on the declaration line, every known function
\* invoked at statement start on a line between the declaration and the
\* matching closing brace is listed in the calls of the function.
C21_BodyFromDeclarationLine ==
    sh_pc = "done" =>
       \A k \in 1..Len(sh_lines) :
          ( /\ func_pattern1_match(sh_lines[k]) \/ func_pattern2_match(sh_lines[k])
            /\ sh_lines[k].brace = "{"
            /\ ClosingLine(sh_lines, k + 1, 1) # 0
            /\ \A n \in 1..Len(sh_lines) :
                  (n # k /\ sh_lines[n].k \in {"func1", "func2"})
                     => sh_lines[n].name # sh_lines[k].name )
          => /\ DictHas(sh_result.functions, sh_lines[k].name)
             /\ \A j \in (k + 1)..(ClosingLine(sh_lines, k + 1, 1) - 1) :
                   ( /\ sh_lines[j].k = "cmd"
                     /\ sh_lines[j].name \in sh_all_function_names )
                   => sh_lines[j].name
                         \in CallsOfEntry(DictGet(sh_result.functions, sh_lines[k].name))

\* the names followed by ( on line n of a text, after the first { of the
\* line: what a member that stands on line n with its whole body invokes
InvokedOnLine(content, n) ==
    {content[p] : p \in {q \in 1..(Len(content) - 1) :
                           /\ pos_to_line(content, q) = n
                           /\ content[q + 1] = "("
                           /\ \E b \in 1..(q - 1) :
                                 pos_to_line(content, b) = n /\ content[b] = "{"}}

\* C22: for every method emitted by extract_javascript_signatures, every
\* name in the calls of the method is invoked between the opening brace
\* of the method and its matching closing brace (here: on the line of the
\* method, every method having its whole body on that line), never in the
\* body of a following method.
C22_CallsFromOwnBody ==
    js_pc = "done" =>
       \A k \in 1..Len(js_result.classes) :
          \A n \in 1..Len(MethodsOfClass(js_result, k)) :
             LET info == MethodsOfClass(js_result, k)[n][2]
             IN  IsDict(info) =>
                    Range(Get(info, "calls", <<>>)) \subseteq InvokedOnLine(js_content, info.line)

\* line j of a file stands in the body of the class declared on line c:
\* every line from c + 1 to j is blank or indented deeper than the class
InClassBody(ls, c, j) ==
    /\ c < j
    /\ \A n \in (c + 1)..j : IsBlank(ls[n]) \/ ls[n].ind > ls[c].ind

\* line j stands in the body of a def that is itself in the class of line c
InMethodBody(ls, c, j) ==
    \E d \in (c + 1)..(j - 1) :
       /\ func_start_match(ls[d])
       /\ ls[d].ind < ls[j].ind
       /\ \A n \in (d + 1)..j : IsBlank(ls[n]) \/ ls[n].ind > ls[d].ind

\* the names annotated directly in the body of a top-level class called
\* name: `attr: text` lines of the class body outside every method body
DirectAttributes(ls, name) ==
    {ls[j].name : j \in {n \in 1..Len(ls) :
                           /\ ls[n].k \in {"annot", "typedvar"}
                           /\ \E c \in 1..(n - 1) :
                                 /\ class_match(ls[c]) /\ ls[c].ind = 0
                                 /\ ls[c].name = name
                                 /\ InClassBody(ls, c, n)
                                 /\ ~InMethodBody(ls, c, n)}}

\* C23: every name in the properties list of a class is an annotated
\* attribute declared directly in the class body, an annotated name inside
\* a method body of the class is never added, and no name is listed twice.
C23_PropertiesOfClassBody ==
    py_pc = "done" =>
       \A k \in 1..Len(result.classes) :
          LET properties == Get(result.classes[k][2], "properties", <<>>)
          IN  /\ Range(properties) \subseteq DirectAttributes(lines, result.classes[k][1])
              /\ NoDuplicates(properties)

\* line j is the first line after the body of a top-level class: a line at
\* column 0 that follows a class line and at least one line of its body
AfterClassBody(ls, j) ==
    /\ ls[j].ind = 0 /\ ~IsBlank(ls[j]) /\ ~IsCommentOrDocstring(ls[j])
    /\ \E c \in 1..(j - 2) :
          /\ class_match(ls[c]) /\ ls[c].ind = 0
          /\ InClassBody(ls, c, j - 1)

\* C24: the class scope is left at the first line whose indentation is <=
\* that of the class, and the module-level rules apply to that line: an
\* uppercase constant, a typed variable or a type alias at column 0 on the
\* first line after a class body is recorded in constants, variables or
\* type_aliases.
C24_ModuleRulesAfterClass ==
    py_pc = "done" =>
       \A j \in 1..Len(lines) :
          AfterClassBody(lines, j) =>
             /\ lines[j].k = "const" => DictHas(Get(result, "constants", <<>>), lines[j].name)
             /\ lines[j].k = "typedvar" => lines[j].name \in Range(Get(result, "variables", <<>>))
             /\ lines[j].k = "alias" => DictHas(Get(result, "type_aliases", <<>>), lines[j].name)

\* C25: in the result of extract_shell_signatures no variable name is both
\* a key of exports and an element of variables, whatever the order of the
\* `export NAME=value` and the plain `NAME=value` lines; variables and
\* sources contain no duplicates.
C25_ExportsApartFromVariables ==
    sh_pc = "done" =>
       /\ Range(DictKeys(Get(sh_result, "exports", <<>>)))
             \cap Range(Get(sh_result, "variables", <<>>)) = {}
       /\ NoDuplicates(Get(sh_result, "variables", <<>>))
       /\ NoDuplicates(Get(sh_result, "sources", <<>>))

(***************************************************************************)
(* Claims about the order of called_by_map (under SpecGraphOrder).        *)
(***************************************************************************)
\* the names of the entries of a dict whose record carries calls to y
CallersIn(prefix, d, y) ==
    LET with == SelectSeq(d, LAMBDA e : /\ IsDict(e[2]) /\ "calls" \in DOMAIN e[2]
                                        /\ y \in Range(e[2]["calls"]))
    IN  [k \in 1..Len(with) |-> prefix \o with[k][1]]

\* the methods that call y, in class order and method order, of the first
\* n classes
RECURSIVE MethodCallers(_, _)
MethodCallers(n, y) ==
    IF n = 0 THEN <<>>
    ELSE MethodCallers(n - 1, y)
         \o CallersIn(classes[n][1] \o ".", Get(classes[n][2], "methods", <<>>), y)

\* C26: for every callee y, called_by_map[y] has no duplicate entries even
\* when the calls list of a caller names y more than once, and lists the
\* callers in the order in which they are first encountered: the module
\* functions in functions order, then the methods in class order and
\* method order.
C26_CallersOnceInOrder ==
    graph_built =>
       \A k \in 1..Len(called_by_map) :
          /\ NoDuplicates(called_by_map[k][2])
          /\ called_by_map[k][2] =
                CallersIn("", functions, called_by_map[k][1])
                \o MethodCallers(Len(classes), called_by_map[k][1])

\* C26 witness: the function a calls itself twice, and so do the methods
\* n and m of class B and the method m of class A, declared in that order.
C26_Witness ==
    /\ graph_built
    /\ functions = << <<"a", [line |-> 1, calls |-> <<"a", "a">>, signature |-> "()"]>> >>
    /\ DictKeys(classes) = <<"B", "A">>
    /\ DictKeys(classes[1][2].methods) = <<"n", "m">>
    /\ DictKeys(classes[2][2].methods) = <<"m">>
    /\ called_by_map = << <<"a", <<"a", "B.n", "B.m", "A.m">> >> >>

(***************************************************************************)
(* Claims about the known symbols of the scanners (under SpecShNested).   *)
(***************************************************************************)
\* the function names and the method names a result holds
EmittedNames(res) ==
    Range(DictKeys(Get(res, "functions", <<>>)))
    \cup UNION {Range(DictKeys(Get(Get(res, "classes", <<>>)[k][2], "methods", <<>>))) :
                  k \in 1..Len(Get(res, "classes", <<>>))}

\* C27: in each scanner every function or method name emitted in the
\* result is a member of the known-symbol set collected by the pre-pass of
\* that scanner, whatever the form of the declaration (an indented shell
\* function declaration included).
C27_EmittedNamesKnown ==
    /\ py_pc = "done" => EmittedNames(result) \subseteq all_function_names
    /\ sh_pc = "done" => EmittedNames(sh_result) \subseteq sh_all_function_names
    /\ js_pc = "done" => EmittedNames(js_result) \subseteq js_all_function_names

(***************************************************************************)
(* Claims about the index cache of the hook (under SpecHook).             *)
(***************************************************************************)
\* C28: a should_regenerate_index call that directly follows a successful
\* generate_index_at_size for a size within 2k of the requested one, no
\* project file being created, deleted or modified in between, returns
\* False; a call returns True when the index file is missing or
\* unreadable, when the hash of the project files differs from the stored
\* one, or when the size differs by more than 2k.  (The listing of the
\* project files is taken to work in both calls.)
C28_CacheUsedAfterGenerate ==
    [][(hk_last'.fn = "should_regenerate_index" /\ ~hk_last'.raised) =>
          /\ ( /\ hk_last.fn = "generate_index_at_size"
               /\ hk_last.result /\ ~hk_last.raised
               /\ Abs(hk_last'.size - hk_last.size) <= SizeTolerance )
             => hk_last'.result = FALSE
          /\ ( \/ hk_index_file # "ok"
               \/ calculate_files_hash(hk_mtime, Listed, FALSE)
                     # Get(hk_meta, "files_hash", NoHash)
               \/ Abs(hk_last'.size - Get(hk_meta, "target_size_k", 0)) > SizeTolerance )
             => hk_last'.result = TRUE]_vars

(***************************************************************************)
(* Claims about parse_index_flag (under SpecFlag).                        *)
(***************************************************************************)
\* C29: whenever parse_index_flag finds a flag the returned size_k is
\* between MIN_SIZE_K and CLAUDE_MAX_K for -i and between MIN_SIZE_K and
\* EXTERNAL_MAX_K for -ic, the size being explicit, remembered or
\* defaulted; -ic without a number yields DEFAULT_SIZE_K whatever size the
\* index remembers; a prompt without a flag is returned unchanged with no
\* size and no mode.
C29_SizeWithinLimits ==
    hk_last.fn = "parse_index_flag" =>
       LET r == hk_last.result
           k == flag_search(hk_last.prompt)
       IN  /\ k # 0 => "size_k" \in DOMAIN r /\ "clipboard_mode" \in DOMAIN r
           /\ "size_k" \in DOMAIN r =>
                 /\ MIN_SIZE_K <= r.size_k
                 /\ ~r.clipboard_mode => r.size_k <= CLAUDE_MAX_K
                 /\ r.clipboard_mode => r.size_k <= EXTERNAL_MAX_K
           /\ (k # 0 /\ FlagAt(hk_last.prompt, k).c /\ FlagAt(hk_last.prompt, k).digits = "")
                 => r.size_k = DEFAULT_SIZE_K
           /\ k = 0 => r = [cleaned_prompt |-> hk_last.prompt]

\* C29 witness: the prompt `-i` with an index that remembers 150 is given
\* the size CLAUDE_MAX_K.
C29_Witness ==
    /\ hk_last.fn = "parse_index_flag"
    /\ hk_last.prompt = <<"-", "i">>
    /\ hk_index_file = "ok"
    /\ hk_meta = [last_interactive_size_k |-> 150]
    /\ hk_last.result.size_k = CLAUDE_MAX_K
    /\ ~hk_last.result.clipboard_mode

\* a text without its white space
NoSpaces(text) == SelectSeq(text, LAMBDA e : e \notin WhiteSpace)

\* a prompt without the flag found at position k: -i, the c and the number
WithoutFlag(prompt, k) ==
    LET match == FlagAt(prompt, k)
        end == k + 2 + (IF match.c THEN 1 ELSE 0) + (IF match.digits # "" THEN 1 ELSE 0)
    IN  SubSeq(prompt, 1, k - 1) \o SubSeq(prompt, end, Len(prompt))

\* C30: when parse_index_flag finds a flag, the cleaned prompt is the
\* prompt with only the detected flag and its number removed (white space
\* apart): every other part, a word that contains -i such as sign-in
\* included, is preserved.
C30_OnlyFlagRemoved ==
    (hk_last.fn = "parse_index_flag" /\ flag_search(hk_last.prompt) # 0) =>
       NoSpaces(hk_last.result.cleaned_prompt)
          = NoSpaces(WithoutFlag(hk_last.prompt, flag_search(hk_last.prompt)))

====
